---- MODULE Spec2Model ----
(***************************************************************************)
(* The repository-analysis pipeline of the code processor service: the    *)
(* four-stage LangGraph workflow (graph/workflow.py, graph/nodes.py) with  *)
(* its state (graph/state.py), the processors it calls (processors/*.py)  *)
(* and the collaborators' behaviour (mcp/client.py, llm/azure_client.py). *)
(* Text (file names, paths, dependency names) is a sequence of one-        *)
(* character strings, so that lower-casing, splitting and substring tests *)
(* are computed as the code computes them.                                 *)
(***************************************************************************)
EXTENDS Integers, Sequences, FiniteSets, TLC

VARIABLES
  workflow,   \* the processors the CodeProcessorWorkflow was constructed with
  remote,     \* how the collaborators (GitHub API, LLM) answer; an unchanged snapshot
  pc,         \* position of the graph execution: "idle", a node name, or "END"
  state,      \* the ProcessorState of the run in progress
  run,        \* number of calls of process() started so far
  invoked,    \* stage functions invoked in the current run, in order
  routes,     \* values returned by the routing function in the current run
  results,    \* final states returned by process(), one per finished run
  clock,      \* wall clock read by datetime.utcnow()
  call        \* the last direct call of a method of a client or processor:
              \* its name, its arguments and what it returned or raised

vars == <<workflow, remote, pc, state, run, invoked, routes, results, clock, call>>

\* Number of times process() is called on the workflow.
MaxRuns == 2

-----------------------------------------------------------------------------
\* Python values

None == "<None>"

\* None where the other values are texts
NoneText == <<"<None>">>

Ok(v) == [ok |-> TRUE, val |-> v]

Raise(e) == [ok |-> FALSE, exc |-> e]

\* d.get(key, default) on a dict modelled as a record
Get(d, key, default) == IF key \in DOMAIN d THEN d[key] ELSE default

Range(s) == {s[i] : i \in 1..Len(s)}

\* the concatenation of a list of lists
RECURSIVE Flatten(_)
Flatten(ss) == IF ss = <<>> THEN <<>> ELSE Head(ss) \o Flatten(Tail(ss))

\* a `seen` loop that keeps every element
keeps_duplicates(s) == s

\* the first occurrence of every element, in order (the `seen` loops)
RECURSIVE Unique(_)
Unique(s) ==
  IF s = <<>> THEN <<>>
  ELSE LET front == Unique(SubSeq(s, 1, Len(s) - 1))
       IN IF s[Len(s)] \in Range(front) THEN front ELSE Append(front, s[Len(s)])

\* all orders in which the elements of a Python set of strings can be iterated
\* (the order depends on the per-process string hash seed)
SetOrders(S) ==
  {p \in [1..Cardinality(S) -> S] : \A i, j \in 1..Cardinality(S) : i # j => p[i] # p[j]}

-----------------------------------------------------------------------------
\* Text

UPPER == <<"A","B","C","D","E","F","G","H","I","J","K","L","M","N","O","P","Q","R","S","T","U","V","W","X","Y","Z">>

LOWER == <<"a","b","c","d","e","f","g","h","i","j","k","l","m","n","o","p","q","r","s","t","u","v","w","x","y","z">>

\* str.lower()
Lower(s) ==
  [i \in 1..Len(s) |->
     IF \E k \in 1..Len(UPPER) : UPPER[k] = s[i]
     THEN LOWER[CHOOSE k \in 1..Len(UPPER) : UPPER[k] = s[i]]
     ELSE s[i]]

\* p in s
Contains(s, p) ==
  \E i \in 0..(Len(s) - Len(p)) : \A k \in 1..Len(p) : s[i + k] = p[k]

\* s.endswith(p)
EndsWith(s, p) ==
  /\ Len(p) <= Len(s)
  /\ \A k \in 1..Len(p) : s[Len(s) - Len(p) + k] = p[k]

\* s.split("/")[0]
FirstSegment(s) ==
  IF \E i \in 1..Len(s) : s[i] = "/"
  THEN SubSeq(s, 1, (CHOOSE i \in 1..Len(s) : s[i] = "/" /\ \A j \in 1..(i - 1) : s[j] # "/") - 1)
  ELSE s

\* os.path.splitext(name)[1] for a name without directory separators: the
\* suffix from the last dot, unless that dot only follows leading dots
splitext(name) ==
  LET dots == {i \in 1..Len(name) : name[i] = "."}
      last == CHOOSE i \in dots : \A j \in dots : j <= i
  IN IF dots = {} \/ (\A j \in 1..(last - 1) : name[j] = ".")
     THEN <<>>
     ELSE SubSeq(name, last, Len(name))

DIGITS == <<"0","1","2","3","4","5","6","7","8","9">>

\* the characters that str.strip() removes and that \s matches
WHITESPACE == {" ", "\t", "\r", "\n", "\f"}

\* s.split(sep) for a separator of one character
RECURSIVE split(_, _)
split(s, sep) ==
  LET seps == {i \in 1..Len(s) : s[i] = sep}
      first == CHOOSE i \in seps : \A j \in seps : i <= j
  IN IF seps = {} THEN <<s>>
     ELSE <<SubSeq(s, 1, first - 1)>> \o split(SubSeq(s, first + 1, Len(s)), sep)

\* a strip that removes nothing
strip_keeps_margins(s) == s

\* s.strip()
strip(s) ==
  LET kept == {i \in 1..Len(s) : s[i] \notin WHITESPACE}
  IN IF kept = {} THEN <<>>
     ELSE SubSeq(s, CHOOSE i \in kept : \A j \in kept : i <= j,
                    CHOOSE i \in kept : \A j \in kept : j <= i)

\* the number of characters a greedy repetition X{0,max} of the character
\* class X (a set of characters) consumes at position from of s
repeat(s, from, X, max) ==
  CHOOSE n \in 0..max :
    /\ \A k \in 0..(n - 1) : from + k <= Len(s) /\ s[from + k] \in X
    /\ n = max \/ from + n > Len(s) \/ s[from + n] \notin X

-----------------------------------------------------------------------------
\* MetadataExtractor (processors/metadata_extractor.py)

LANGUAGE_MAP ==
  << <<<<".","p","y">>, "Python">>,
     <<<<".","j","s">>, "JavaScript">>,
     <<<<".","t","s">>, "TypeScript">>,
     <<<<".","j","s","x">>, "JavaScript">>,
     <<<<".","t","s","x">>, "TypeScript">>,
     <<<<".","c","s">>, "C#">>,
     <<<<".","j","a","v","a">>, "Java">>,
     <<<<".","g","o">>, "Go">>,
     <<<<".","r","b">>, "Ruby">>,
     <<<<".","r","s">>, "Rust">>,
     <<<<".","c","p","p">>, "C++">>,
     <<<<".","c">>, "C">>,
     <<<<".","h">>, "C/C++">>,
     <<<<".","p","h","p">>, "PHP">>,
     <<<<".","s","w","i","f","t">>, "Swift">>,
     <<<<".","k","t">>, "Kotlin">>,
     <<<<".","s","c","a","l","a">>, "Scala">>,
     <<<<".","r">>, "R">>,
     <<<<".","s","q","l">>, "SQL">>,
     <<<<".","h","t","m","l">>, "HTML">>,
     <<<<".","c","s","s">>, "CSS">>,
     <<<<".","s","c","s","s">>, "SCSS">>,
     <<<<".","s","a","s","s">>, "SASS">>,
     <<<<".","l","e","s","s">>, "LESS">>,
     <<<<".","j","s","o","n">>, "JSON">>,
     <<<<".","x","m","l">>, "XML">>,
     <<<<".","y","a","m","l">>, "YAML">>,
     <<<<".","y","m","l">>, "YAML">>,
     <<<<".","m","d">>, "Markdown">>,
     <<<<".","t","x","t">>, "Text">>,
     <<<<".","s","h">>, "Shell">>,
     <<<<".","b","a","s","h">>, "Bash">>,
     <<<<".","p","s","1">>, "PowerShell">>,
     <<<<".","d","o","c","k","e","r","f","i","l","e">>, "Docker">>,
     <<<<".","t","f">>, "Terraform">> >>

DEPENDENCY_PATTERNS ==
  << <<<<"p","a","c","k","a","g","e",".","j","s","o","n">>, "npm">>,
     <<<<"r","e","q","u","i","r","e","m","e","n","t","s",".","t","x","t">>, "pip">>,
     <<<<"P","i","p","f","i","l","e">>, "pipenv">>,
     <<<<"p","y","p","r","o","j","e","c","t",".","t","o","m","l">>, "poetry">>,
     <<<<"G","e","m","f","i","l","e">>, "bundler">>,
     <<<<"g","o",".","m","o","d">>, "go">>,
     <<<<"C","a","r","g","o",".","t","o","m","l">>, "cargo">>,
     <<<<"p","o","m",".","x","m","l">>, "maven">>,
     <<<<"b","u","i","l","d",".","g","r","a","d","l","e">>, "gradle">>,
     <<<<"*",".","c","s","p","r","o","j">>, "nuget">>,
     <<<<"D","i","r","e","c","t","o","r","y",".","P","a","c","k","a","g","e","s",".","p","r","o","p","s">>, "nuget">>,
     <<<<"p","a","c","k","a","g","e","s",".","c","o","n","f","i","g">>, "nuget">> >>

LANGUAGE_MAP_get(ext) ==
  IF \E i \in 1..Len(LANGUAGE_MAP) : LANGUAGE_MAP[i][1] = ext
  THEN LANGUAGE_MAP[CHOOSE i \in 1..Len(LANGUAGE_MAP) : LANGUAGE_MAP[i][1] = ext][2]
  ELSE None

\* a classifier that looks the extension up as written
file_metadata_as_written(file_info) ==
  LET name == Get(file_info, "name", <<>>)
      ext == splitext(name)
  IN [path |-> Get(file_info, "path", <<>>),
      name |-> name,
      extension |-> ext,
      size |-> Get(file_info, "size", 0),
      language |-> IF name = <<"d","o","c","k","e","r","f","i","l","e">> THEN "Docker"
                   ELSE LANGUAGE_MAP_get(ext)]

\* one element of the list built by extract_files_metadata
file_metadata(file_info) ==
  LET name == Get(file_info, "name", <<>>)
      ext == splitext(Lower(name))
      language ==
        IF Lower(name) = <<"d","o","c","k","e","r","f","i","l","e">> THEN "Docker"
        ELSE IF Lower(name) \in {<<"m","a","k","e","f","i","l","e">>, <<"g","n","u","m","a","k","e","f","i","l","e">>} THEN "Make"
        ELSE LANGUAGE_MAP_get(ext)
  IN [path |-> Get(file_info, "path", <<>>),
      name |-> name,
      extension |-> ext,
      size |-> Get(file_info, "size", 0),
      language |-> language]

extract_files_metadata(files, mcp_client, owner, repo) ==
  [i \in 1..Len(files) |-> file_metadata(files[i])]

\* a detection that accepts a name that contains a pattern
_get_dependency_type_by_substring(filename) ==
  LET hit(i) ==
        LET pattern == DEPENDENCY_PATTERNS[i][1]
        IN Contains(filename, IF pattern[1] = "*" THEN Tail(pattern) ELSE pattern)
      hits == {i \in 1..Len(DEPENDENCY_PATTERNS) : hit(i)}
  IN IF hits = {} THEN None
     ELSE DEPENDENCY_PATTERNS[CHOOSE i \in hits : \A j \in hits : i <= j][2]

_get_dependency_type(filename) ==
  LET hit(i) ==
        LET pattern == DEPENDENCY_PATTERNS[i][1]
        IN IF pattern[1] = "*" THEN EndsWith(filename, Tail(pattern)) ELSE filename = pattern
      hits == {i \in 1..Len(DEPENDENCY_PATTERNS) : hit(i)}
  IN IF hits = {} THEN None
     ELSE DEPENDENCY_PATTERNS[CHOOSE i \in hits : \A j \in hits : i <= j][2]

\* content is the fetched text, given by what json.loads makes of it:
\* [json |-> "malformed"], [json |-> "not_object"] (a list, a string, a
\* number, null) or [json |-> "object", data |-> the members]; a member is
\* [type |-> "object", items |-> its <<name, version>> pairs in order] or a
\* value of another type, [type |-> "array"], [type |-> "null"], ...
\* data.get and .items() exist on a dict only.
_parse_npm_dependencies(content, source_file) ==
  IF content.json = "malformed" THEN Ok(<<>>)
  ELSE IF content.json = "not_object" THEN Raise("AttributeError")
  ELSE
    LET member(dep_key) == Get(content.data, dep_key, [type |-> "object", items |-> <<>>])
        section(dep_key) ==
          [i \in 1..Len(member(dep_key).items) |->
             [name |-> member(dep_key).items[i][1], version |-> member(dep_key).items[i][2],
              type |-> dep_key, source_file |-> source_file]]
    IN IF \E dep_key \in {"dependencies", "devDependencies", "peerDependencies"} :
            member(dep_key).type # "object"
       THEN Raise("AttributeError")
       ELSE Ok(section("dependencies") \o section("devDependencies")
                 \o section("peerDependencies"))

\* re.match(r"^([a-zA-Z0-9][a-zA-Z0-9_-]{0,100})(?:\s*([<>=!~]{1,3})\s*([^\s#]{1,100}))?", line):
\* <<>> when there is no match, else the one pair of name (group 1) and
\* version (group 3 if group 2 took part, else None). Every repetition is
\* greedy; the optional group is tried with the longest comparator first, and
\* a comparator is shortened when no version character follows it.
pip_requirement(line) ==
  LET \* \s*([^\s#]{1,100}) at position from: where group 3 starts, and its length
      group3(from) ==
        LET taken(start) ==
              [start |-> start,
               length |-> repeat(line, start, Range(line) \ (WHITESPACE \cup {"#"}), 100)]
        IN taken(from + repeat(line, from, WHITESPACE, Len(line)))
      text(v) == SubSeq(line, v.start, v.start + v.length - 1)
      \* the optional group at position comparator
      optional(comparator) ==
        LET longest_of(fits) ==
              IF fits = {} THEN NoneText
              ELSE text(group3(comparator + CHOOSE m \in fits : \A k \in fits : k <= m))
            shortened(longest) ==
              longest_of({n \in 1..longest : group3(comparator + n).length >= 1})
        IN shortened(repeat(line, comparator, {"<", ">", "=", "!", "~"}, 3))
      matched(name_end) ==
        << [name |-> SubSeq(line, 1, name_end),
            version |-> optional(name_end + 1 + repeat(line, name_end + 1, WHITESPACE, Len(line)))] >>
  IN IF line = <<>> \/ line[1] \notin Range(UPPER) \cup Range(LOWER) \cup Range(DIGITS) THEN <<>>
     ELSE matched(1 + repeat(line, 2, Range(UPPER) \cup Range(LOWER) \cup Range(DIGITS) \cup {"_", "-"}, 100))

_parse_pip_dependencies(content, source_file) ==
  LET dependency(match) ==
        IF match = <<>> THEN <<>>
        ELSE << [name |-> match[1].name, version |-> match[1].version,
                 type |-> "pip", source_file |-> source_file] >>
      requirement(line) ==
        IF line = <<>> \/ line[1] = "#" THEN <<>>
        ELSE IF Len(line) > 500 THEN <<>>
        ELSE dependency(pip_requirement(line))
      requirements(lines) ==
        Flatten([i \in 1..Len(lines) |-> requirement(strip(lines[i]))])
  IN requirements(split(content, "\n"))

\* re.match(r"(?:require\s+)?([^\s]+)\s+(.+)$", line) on a stripped line:
\* <<>> when there is no match, else the one pair of name (group 1) and
\* version (group 2). The keyword is skipped first; when the rest of the
\* expression does not match after it, the match is retried with the keyword
\* as part of group 1.
go_requirement(line) ==
  LET keyword == <<"r","e","q","u","i","r","e">>
      \* ([^\s]+)\s+(.+)$ at position from
      tokens(from) ==
        LET groups(name, gap) ==
              IF name >= 1 /\ gap >= 1 /\ from + name + gap <= Len(line)
              THEN << [name |-> SubSeq(line, from, from + name - 1),
                       version |-> SubSeq(line, from + name + gap, Len(line))] >>
              ELSE <<>>
            after(name) == groups(name, repeat(line, from + name, WHITESPACE, Len(line)))
        IN after(repeat(line, from, Range(line) \ WHITESPACE, Len(line)))
      retried(with_keyword) == IF with_keyword # <<>> THEN with_keyword ELSE tokens(1)
      skipped(after_keyword) ==
        retried(IF after_keyword >= 1 THEN tokens(Len(keyword) + 1 + after_keyword) ELSE <<>>)
  IN skipped(IF Len(line) > Len(keyword) /\ SubSeq(line, 1, Len(keyword)) = keyword
             THEN repeat(line, Len(keyword) + 1, WHITESPACE, Len(line))
             ELSE 0)

\* the loop of _parse_go_dependencies from the given lines on
RECURSIVE go_requirements(_, _, _)
go_requirements(lines, in_require_block, source_file) ==
  IF lines = <<>> THEN <<>>
  ELSE
    LET dependency(match) ==
          IF match = <<>> THEN <<>>
          ELSE << [name |-> match[1].name, version |-> match[1].version,
                   type |-> "go", source_file |-> source_file] >>
        step(line) ==
          IF line = <<"r","e","q","u","i","r","e"," ","(">> THEN <<TRUE, <<>> >>
          ELSE IF line = <<")">> THEN <<FALSE, <<>> >>
          ELSE IF in_require_block
                  \/ (Len(line) >= 8 /\ SubSeq(line, 1, 8) = <<"r","e","q","u","i","r","e"," ">>)
          THEN <<in_require_block, dependency(go_requirement(line))>>
          ELSE <<in_require_block, <<>> >>
        rest(done) == done[2] \o go_requirements(Tail(lines), done[1], source_file)
    IN rest(step(strip(Head(lines))))

_parse_go_dependencies(content, source_file) ==
  go_requirements(split(content, "\n"), FALSE, source_file)

\* the dispatch point: content is the text for pip and go, and what json.loads
\* makes of the text for npm; the repositories of this model hold no nuget
\* manifest, and the other kinds have no parser
_parse_dependencies(content, dep_type, source_file) ==
  IF dep_type = "npm" THEN _parse_npm_dependencies(content, source_file)
  ELSE IF dep_type = "pip" THEN Ok(_parse_pip_dependencies(content, source_file))
  ELSE IF dep_type = "go" THEN Ok(_parse_go_dependencies(content, source_file))
  ELSE Ok(<<>>)

\* GitHubMCPClient.get_file_content: mcp_client.content maps the paths of the
\* files to [kind |-> "transport_error"], [kind |-> "status"] or
\* [kind |-> "ok", text |-> the decoded content]; another path answers 404
get_file_content(mcp_client, owner, repo, path) ==
  LET response == IF path \in DOMAIN mcp_client.content THEN mcp_client.content[path]
                  ELSE [kind |-> "status"]
  IN IF response.kind = "transport_error" THEN Raise("ClientError")
     ELSE IF response.kind = "status" THEN Raise("Failed to get file content")
     ELSE Ok(response.text)

\* the try block of the loop of extract_dependencies for one file: the
\* records it extends the list by, or what it raises
file_dependencies(file_info, mcp_client, owner, repo) ==
  LET name == Get(file_info, "name", <<>>)
      path == Get(file_info, "path", <<>>)
      dep_type == _get_dependency_type(name)
  IN IF dep_type = None THEN Ok(<<>>)
     ELSE LET content == get_file_content(mcp_client, owner, repo, path)
          IN IF ~content.ok THEN content
             ELSE _parse_dependencies(content.val, dep_type, path)

\* a loop without the handler
skip_unreadable_reraises(attempt) == attempt

\* except Exception: pass
skip_unreadable(attempt) == IF attempt.ok THEN attempt ELSE Ok(<<>>)

RECURSIVE extract_dependencies(_, _, _, _)
extract_dependencies(files, mcp_client, owner, repo) ==
  IF files = <<>> THEN Ok(<<>>)
  ELSE LET first == skip_unreadable(file_dependencies(Head(files), mcp_client, owner, repo))
           rest == extract_dependencies(Tail(files), mcp_client, owner, repo)
       IN IF ~first.ok THEN first
          ELSE IF ~rest.ok THEN rest
          ELSE Ok(first.val \o rest.val)

RECURSIVE SumSizes(_)
SumSizes(files_metadata) ==
  IF files_metadata = <<>> THEN 0
  ELSE Get(Head(files_metadata), "size", 0) + SumSizes(Tail(files_metadata))

\* a dict of counts built by d[k] = d.get(k, 0) + 1 over keys, as the sequence
\* of its <<key, count>> items in insertion order
RECURSIVE Counts(_)
Counts(keys) ==
  IF keys = <<>> THEN <<>>
  ELSE LET k == keys[Len(keys)]
           before == Counts(SubSeq(keys, 1, Len(keys) - 1))
       IN IF \E i \in 1..Len(before) : before[i][1] = k
          THEN [i \in 1..Len(before) |->
                  IF before[i][1] = k THEN <<k, before[i][2] + 1>> ELSE before[i]]
          ELSE Append(before, <<k, 1>>)

calculate_code_metrics(files_metadata) ==
  LET langs == SelectSeq([i \in 1..Len(files_metadata) |-> files_metadata[i].language],
                         LAMBDA l : l # None)
      exts == SelectSeq([i \in 1..Len(files_metadata) |->
                           Get(files_metadata[i], "extension", <<>>)],
                        LAMBDA e : e # <<>>)
  IN [total_files |-> Len(files_metadata),
      total_size_bytes |-> SumSizes(files_metadata),
      languages_breakdown |-> Counts(langs),
      file_types |-> Counts(exts)]

framework_patterns ==
  << <<<<"r","e","a","c","t">>, "React", "framework">>,
     <<<<"v","u","e">>, "Vue.js", "framework">>,
     <<<<"a","n","g","u","l","a","r">>, "Angular", "framework">>,
     <<<<"e","x","p","r","e","s","s">>, "Express.js", "framework">>,
     <<<<"f","a","s","t","a","p","i">>, "FastAPI", "framework">>,
     <<<<"d","j","a","n","g","o">>, "Django", "framework">>,
     <<<<"f","l","a","s","k">>, "Flask", "framework">>,
     <<<<"s","p","r","i","n","g">>, "Spring", "framework">>,
     <<<<"a","s","p","n","e","t">>, "ASP.NET", "framework">>,
     <<<<"m","i","c","r","o","s","o","f","t",".","a","s","p","n","e","t","c","o","r","e">>, "ASP.NET Core", "framework">>,
     <<<<"e","n","t","i","t","y">>, "Entity Framework", "library">>,
     <<<<"p","y","t","e","s","t">>, "pytest", "testing">>,
     <<<<"j","e","s","t">>, "Jest", "testing">>,
     <<<<"x","u","n","i","t">>, "xUnit", "testing">>,
     <<<<"d","o","c","k","e","r">>, "Docker", "infrastructure">>,
     <<<<"k","u","b","e","r","n","e","t","e","s">>, "Kubernetes", "infrastructure">>,
     <<<<"r","e","d","i","s">>, "Redis", "database">>,
     <<<<"p","o","s","t","g","r","e","s">>, "PostgreSQL", "database">>,
     <<<<"m","o","n","g","o","d","b">>, "MongoDB", "database">> >>

\* the set `languages` built by the first loop of identify_tech_stack
observed_languages(files_metadata) ==
  {files_metadata[i].language : i \in 1..Len(files_metadata)} \ {None}

\* a `seen` that is never filled
seen_never_filled(tech_stack) == {}

TechNames(tech_stack) == {tech_stack[i].name : i \in 1..Len(tech_stack)}

\* a dependency loop that leaves the pattern loop at the first pattern found
RECURSIVE scan_dependencies_first_match(_, _, _, _)
scan_dependencies_first_match(tech_stack, dependencies, d, p) ==
  IF d > Len(dependencies) THEN tech_stack
  ELSE IF p > Len(framework_patterns)
  THEN scan_dependencies_first_match(tech_stack, dependencies, d + 1, 1)
  ELSE IF ~Contains(Lower(Get(dependencies[d], "name", <<>>)), framework_patterns[p][1])
  THEN scan_dependencies_first_match(tech_stack, dependencies, d, p + 1)
  ELSE scan_dependencies_first_match(
         IF framework_patterns[p][2] \in TechNames(tech_stack) THEN tech_stack
         ELSE Append(tech_stack, [name |-> framework_patterns[p][2],
                                  category |-> framework_patterns[p][3],
                                  version |-> Get(dependencies[d], "version", NoneText)]),
         dependencies, d + 1, 1)

\* the dependency loop of identify_tech_stack, from dependency d and pattern p on;
\* `seen` is at every point the set of names in tech_stack
RECURSIVE scan_dependencies(_, _, _, _)
scan_dependencies(tech_stack, dependencies, d, p) ==
  IF d > Len(dependencies) THEN tech_stack
  ELSE IF p > Len(framework_patterns) THEN scan_dependencies(tech_stack, dependencies, d + 1, 1)
  ELSE
    LET dep == dependencies[d]
        dep_name == Lower(Get(dep, "name", <<>>))
        pattern == framework_patterns[p][1]
        name == framework_patterns[p][2]
        category == framework_patterns[p][3]
    IN IF Contains(dep_name, pattern) /\ name \notin TechNames(tech_stack)
       THEN scan_dependencies(
              Append(tech_stack, [name |-> name, category |-> category,
                                  version |-> Get(dep, "version", NoneText)]),
              dependencies, d, p + 1)
       ELSE scan_dependencies(tech_stack, dependencies, d, p + 1)

\* order: the order in which `for lang in languages` iterates the set
identify_tech_stack(files_metadata, dependencies, order) ==
  LET from_files ==
        [i \in 1..Len(order) |-> [name |-> order[i], category |-> "language", version |-> NoneText]]
      from_deps == scan_dependencies(from_files, dependencies, 1, 1)
      file_names == {Lower(Get(files_metadata[i], "name", <<>>)) : i \in 1..Len(files_metadata)}
      with_docker ==
        IF (<<"d","o","c","k","e","r","f","i","l","e">> \in file_names \/ <<"d","o","c","k","e","r","-","c","o","m","p","o","s","e",".","y","m","l">> \in file_names)
           /\ "Docker" \notin TechNames(from_deps)
        THEN Append(from_deps, [name |-> "Docker", category |-> "infrastructure", version |-> NoneText])
        ELSE from_deps
      roots == {FirstSegment(Get(files_metadata[i], "path", <<>>)) : i \in 1..Len(files_metadata)}
  IN IF <<".","g","i","t","h","u","b">> \in roots /\ "GitHub Actions" \notin TechNames(with_docker)
     THEN Append(with_docker, [name |-> "GitHub Actions", category |-> "ci_cd", version |-> NoneText])
     ELSE with_docker

\* extract_services: `services` is keyed by the second segment of the paths
\* that have "src" as first segment and at least one more segment, in the
\* order of first appearance. file_extensions stands for sorted(list(set)),
\* which the set determines.
extract_services(files, dependencies) ==
  LET parts(file) == split(Get(file, "path", <<>>), "/")
      in_src(file) == Len(parts(file)) >= 2 /\ parts(file)[1] = <<"s","r","c">>
      grouped == SelectSeq(files, in_src)
      service_names == Unique([i \in 1..Len(grouped) |-> parts(grouped[i])[2]])
      startswith(s, prefix) ==
        Len(prefix) <= Len(s) /\ SubSeq(s, 1, Len(prefix)) = prefix
      first(s, n) == SubSeq(s, 1, IF Len(s) < n THEN Len(s) ELSE n)
      service(service_name) ==
        LET service_files ==
              SelectSeq(files, LAMBDA file : in_src(file) /\ parts(file)[2] = service_name)
            key_files == [i \in 1..Len(service_files) |-> Get(service_files[i], "name", <<>>)]
            service_deps ==
              SelectSeq(dependencies,
                        LAMBDA d : startswith(Get(d, "source_file", <<>>),
                                              <<"s","r","c","/">> \o service_name))
        IN [name |-> service_name,
            file_extensions |-> {splitext(key_files[i]) : i \in 1..Len(key_files)} \ {<<>>},
            key_files |-> first(key_files, 20),
            dependencies |-> [i \in 1..Len(first(service_deps, 15)) |->
                                Get(service_deps[i], "name", NoneText)],
            type |-> "service",
            file_count |-> Len(service_files)]
  IN [i \in 1..Len(service_names) |-> service(service_names[i])]

-----------------------------------------------------------------------------
\* GitHubMCPClient (mcp/client.py); mcp_client is the remote's behaviour

get_repository_info(mcp_client, owner, repo) ==
  IF mcp_client.repo_info.kind = "transport_error" THEN Raise("ClientError")
  ELSE IF mcp_client.repo_info.kind = "status" THEN Raise("Failed to get repository info")
  ELSE LET repo_data == mcp_client.repo_info.data
       IN Ok([name |-> repo_data.name,
              owner |-> repo_data.owner,
              description |-> repo_data.description,
              languages |-> repo_data.languages,
              default_branch |-> repo_data.default_branch,
              stars |-> repo_data.stars])

\* what the contents endpoint answers for a path: mcp_client.listing maps the
\* paths of the repository to [kind |-> "transport_error"] (session.get raises),
\* [kind |-> "status"] (a status other than 200), [kind |-> "ok", items |-> the
\* entries listed] or [kind |-> "object", item |-> the one entry a file path
\* answers with]; a path the repository does not have answers 404
contents(mcp_client, path) ==
  IF path \in DOMAIN mcp_client.listing THEN mcp_client.listing[path]
  ELSE [kind |-> "status"]

\* _fetch_contents with one more level below a directory found at current_depth
descends_one_too_deep(recursive, current_depth, max_depth) ==
  recursive /\ current_depth <= max_depth

\* if recursive and current_depth < max_depth
descends(recursive, current_depth, max_depth) ==
  recursive /\ current_depth < max_depth

\* _fetch_contents and its loop over the items of one listing. acc holds the
\* lists files and directories the calls append to, and requests, the
\* <<path, depth>> of every listing requested so far. The result is
\* [ok |-> TRUE, val |-> acc] when the call returns and
\* [ok |-> FALSE, exc |-> e, val |-> acc] when it raises.
RECURSIVE _fetch_contents(_, _, _, _, _, _)
RECURSIVE _fetch_items(_, _, _, _, _, _)
_fetch_contents(mcp_client, path, acc, recursive, max_depth, current_depth) ==
  LET response == contents(mcp_client, path)
      asked == [acc EXCEPT !.requests = Append(@, <<path, current_depth>>)]
  IN IF response.kind = "transport_error"
     THEN [ok |-> FALSE, exc |-> "ClientError", val |-> asked]
     ELSE IF response.kind = "status" THEN [ok |-> TRUE, val |-> asked]
     ELSE _fetch_items(mcp_client,
                       IF response.kind = "ok" THEN response.items ELSE <<response.item>>,
                       asked, recursive, max_depth, current_depth)

_fetch_items(mcp_client, items, acc, recursive, max_depth, current_depth) ==
  IF items = <<>> THEN [ok |-> TRUE, val |-> acc]
  ELSE
    LET item == Head(items)
    IN IF item.type = "file"
       THEN _fetch_items(mcp_client, Tail(items),
                         [acc EXCEPT !.files = Append(@, [path |-> item.path,
                                                          name |-> item.name,
                                                          size |-> Get(item, "size", 0)])],
                         recursive, max_depth, current_depth)
       ELSE IF item.type = "dir"
       THEN LET found == [acc EXCEPT !.directories =
                                       Append(@, [path |-> item.path, name |-> item.name])]
            IN IF descends(recursive, current_depth, max_depth)
               THEN LET below == _fetch_contents(mcp_client, item.path, found,
                                                 recursive, max_depth, current_depth + 1)
                    IN IF below.ok
                       THEN _fetch_items(mcp_client, Tail(items), below.val,
                                         recursive, max_depth, current_depth)
                       ELSE below
               ELSE _fetch_items(mcp_client, Tail(items), found,
                                 recursive, max_depth, current_depth)
       ELSE _fetch_items(mcp_client, Tail(items), acc, recursive, max_depth, current_depth)

\* the traversal get_file_structure starts, with the requests it made
traversal(mcp_client, path, recursive, max_depth) ==
  _fetch_contents(mcp_client, path,
                  [files |-> <<>>, directories |-> <<>>, requests |-> <<>>],
                  recursive, max_depth, 0)

get_file_structure(mcp_client, owner, repo, path, recursive, max_depth) ==
  LET done == traversal(mcp_client, path, recursive, max_depth)
  IN IF ~done.ok THEN Raise(done.exc)
     ELSE Ok([files |-> done.val.files,
              directories |-> done.val.directories,
              total_files |-> Len(done.val.files),
              total_directories |-> Len(done.val.directories)])

\* the issue/PR listing: a non-success status yields empty lists, a transport
\* failure raises
get_issues(mcp_client, owner, repo) ==
  IF mcp_client.issues.kind = "transport_error" THEN Raise("ClientError")
  ELSE IF mcp_client.issues.kind = "status" THEN Ok([issues |-> <<>>, pull_requests |-> <<>>])
  ELSE Ok([issues |-> mcp_client.issues.issues, pull_requests |-> mcp_client.issues.pull_requests])

\* the priority get_service_files gives a file of the directory
priority(name) ==
  LET ext == Lower(splitext(name))
  IN IF Lower(name) \in {<<"m","a","i","n">>, <<"i","n","d","e","x">>, <<"a","p","p">>, <<"s","e","r","v","e","r">>, <<"p","r","o","g","r","a","m">>, <<"s","t","a","r","t","u","p">>, <<"a","p","p","l","i","c","a","t","i","o","n">>}
     THEN 100
     ELSE IF Contains(Lower(name), <<"m","a","i","n">>) \/ Contains(Lower(name), <<"a","p","p">>)
             \/ Contains(Lower(name), <<"s","e","r","v","e","r">>)
     THEN 90
     ELSE IF Lower(name) \in {<<"d","o","c","k","e","r","f","i","l","e">>, <<"d","o","c","k","e","r","-","c","o","m","p","o","s","e",".","y","m","l">>, <<".","e","n","v">>, <<"c","o","n","f","i","g",".","j","s","o","n">>, <<"c","o","n","f","i","g",".","y","a","m","l">>, <<"a","p","p","s","e","t","t","i","n","g","s",".","j","s","o","n">>, <<"a","p","p","l","i","c","a","t","i","o","n",".","p","r","o","p","e","r","t","i","e","s">>, <<"a","p","p","l","i","c","a","t","i","o","n",".","y","m","l">>}
     THEN 80
     ELSE IF ext \in {<<".","j","s","o","n">>, <<".","t","o","m","l">>, <<".","x","m","l">>, <<".","l","o","c","k">>, <<".","m","o","d">>}
             \/ name \in {<<"g","e","m","f","i","l","e">>, <<"p","i","p","f","i","l","e">>}
     THEN 70
     ELSE IF ext \in {<<".","c","s">>, <<".","j","s">>, <<".","t","s">>, <<".","p","y">>, <<".","j","a","v","a">>, <<".","g","o">>, <<".","r","s">>, <<".","r","b">>, <<".","p","h","p">>, <<".","c","p","p">>, <<".","c">>}
     THEN 60
     ELSE IF ext \in {<<".","m","d">>, <<".","t","x","t">>, <<".","r","s","t">>}
     THEN 50
     ELSE 40

\* the list prioritized_files after prioritized_files.sort(key=lambda x: x[0],
\* reverse=True): <<priority, item>> for the files among items, highest
\* priority first, files of equal priority in the order of the listing
prioritized_files(items) ==
  LET files == SelectSeq(items, LAMBDA item : item.type = "file")
      scored == [i \in 1..Len(files) |-> <<priority(files[i].name), files[i]>>]
  IN Flatten([k \in 1..7 |->
                SelectSeq(scored, LAMBDA x : x[1] = <<100, 90, 80, 70, 60, 50, 40>>[k])])

\* a slice that takes one file more
selected_one_more(files, max_files) ==
  SubSeq(files, 1, IF max_files + 1 < Len(files) THEN max_files + 1 ELSE Len(files))

\* prioritized_files[:max_files], for max_files >= 0
selected(files, max_files) ==
  SubSeq(files, 1, IF max_files < Len(files) THEN max_files ELSE Len(files))

\* content[:5000]
CONTENT_LIMIT == 5000

\* the body of get_service_files once the listing is there: key_files, the
\* list returned; prioritized_files; attempted, the paths whose content was
\* requested, in order
service_files_batch(mcp_client, owner, repo, items, max_files) ==
  LET top == selected(prioritized_files(items), max_files)
      key_file(i) ==
        LET item == top[i][2]
            content == get_file_content(mcp_client, owner, repo, item.path)
        IN IF content.ok /\ content.val # <<>>
           THEN << [path |-> item.path,
                    name |-> item.name,
                    content |-> SubSeq(content.val, 1,
                                       IF Len(content.val) < CONTENT_LIMIT
                                       THEN Len(content.val) ELSE CONTENT_LIMIT)] >>
           ELSE <<>>
  IN [key_files |-> Flatten([i \in 1..Len(top) |-> key_file(i)]),
      prioritized_files |-> prioritized_files(items),
      attempted |-> [i \in 1..Len(top) |-> top[i][2].path]]

get_service_files(mcp_client, owner, repo, service_path, max_files) ==
  LET response == contents(mcp_client, service_path)
  IN IF response.kind = "transport_error" THEN Raise("ClientError")
     ELSE IF response.kind = "status" THEN Ok(<<>>)
     ELSE Ok(service_files_batch(
               mcp_client, owner, repo,
               IF response.kind = "ok" THEN response.items ELSE <<response.item>>,
               max_files).key_files)

-----------------------------------------------------------------------------
\* AzureOpenAIClient (llm/azure_client.py); llm_client is the remote's behaviour

\* the model's reply is given by the sections _parse_summary_response finds in it
summarize_repository(llm_client, repo_info, file_structure, readme_content) ==
  IF llm_client.llm.kind = "raises" THEN Raise("LLMError")
  ELSE
    LET reply == llm_client.llm.reply
    IN Ok([summary |-> reply.summary,
           insights |-> IF reply.insights = <<>> THEN << <<"Repository analysis completed">> >>
                        ELSE reply.insights,
           recommendations |->
             IF reply.recommendations = <<>> THEN << <<"Review generated metadata for accuracy">> >>
             ELSE reply.recommendations])

-----------------------------------------------------------------------------
\* CodeAnalyzer (processors/code_analyzer.py)

_generate_fallback_summary(repository, code_metrics) ==
  LET languages == Get(repository, "languages", <<>>)
  IN [repo_name |-> Get(repository, "name", "Unknown"),
      owner |-> Get(repository, "owner", "Unknown"),
      description |-> Get(repository, "description", "No description available"),
      total_files |-> Get(code_metrics, "total_files", 0),
      primarily |-> IF languages # <<>>
                    THEN SubSeq(languages, 1, IF Len(languages) < 3 THEN Len(languages) ELSE 3)
                    ELSE <<"various languages">>]

_generate_code_insights(code_metrics, tech_stack) ==
  LET total_files == Get(code_metrics, "total_files", 0)
      languages == Get(code_metrics, "languages_breakdown", <<>>)
      size_insight ==
        IF total_files > 1000 THEN <<"Large codebase", total_files>>
        ELSE IF total_files > 100 THEN <<"Medium-sized codebase", total_files>>
        ELSE <<"Compact codebase", total_files>>
      diversity ==
        IF Len(languages) > 5 THEN << <<"Multi-language project", Len(languages)>> >> ELSE <<>>
      primary ==
        IF languages # <<>>
        THEN LET best == CHOOSE i \in 1..Len(languages) :
                           /\ \A j \in 1..Len(languages) : languages[j][2] <= languages[i][2]
                           /\ \A j \in 1..(i - 1) : languages[j][2] < languages[i][2]
             IN << <<"Primary language is", languages[best][1], languages[best][2]>> >>
        ELSE <<>>
      frameworks == SelectSeq(tech_stack, LAMBDA t : Get(t, "category", None) = "framework")
      uses ==
        IF frameworks # <<>>
        THEN << <<"Uses frameworks", [i \in 1..Len(frameworks) |-> frameworks[i].name]>> >>
        ELSE <<>>
  IN <<size_insight>> \o diversity \o primary \o uses

_generate_recommendations(metadata) ==
  LET files == Get(metadata, "files", <<>>)
      dependencies == Get(metadata, "dependencies", <<>>)
      doc_files == SelectSeq(files, LAMBDA f :
                     Get(f, "extension", NoneText) \in {<<".","m","d">>, <<".","r","s","t">>, <<".","t","x","t">>})
      test_files == SelectSeq(files, LAMBDA f :
                      \/ Contains(Lower(Get(f, "path", <<>>)), <<"t","e","s","t">>)
                      \/ Contains(Lower(Get(f, "path", <<>>)), <<"s","p","e","c">>))
      old_dependencies == SelectSeq(dependencies, LAMBDA d :
                            /\ Get(d, "version", NoneText) # NoneText
                            /\ Get(d, "version", NoneText) # <<>>
                            /\ Contains(Get(d, "version", NoneText), <<"^","0",".">>))
      ci_files == SelectSeq(files, LAMBDA f :
                    \/ Contains(Get(f, "path", <<>>), <<".","g","i","t","h","u","b","/","w","o","r","k","f","l","o","w","s">>)
                    \/ Get(f, "name", NoneText) \in {<<".","t","r","a","v","i","s",".","y","m","l">>, <<"a","z","u","r","e","-","p","i","p","e","l","i","n","e","s",".","y","m","l">>})
  IN (IF Len(doc_files) < 5 THEN << <<"Consider adding more documentation files">> >> ELSE <<>>)
     \o (IF test_files = <<>> THEN << <<"No test files detected">> >> ELSE <<>>)
     \o (IF old_dependencies # <<>>
         THEN << <<"dependencies with 0.x versions", Len(old_dependencies)>> >> ELSE <<>>)
     \o (IF ci_files = <<>> THEN << <<"Consider setting up CI/CD pipelines">> >> ELSE <<>>)

\* async def analyze(self, repository, metadata, llm_client, issues, mcp_client):
\* args are the positional arguments of the call; all five parameters are required
analyze(args) ==
  IF Len(args) # 5 THEN Raise("TypeError")
  ELSE
    LET repository == args[1]
        metadata == args[2]
        llm_client == args[3]
        mcp_client == args[5]
        file_list == Get(metadata, "files", <<>>)
        tech_stack == Get(metadata, "tech_stack", <<>>)
        code_metrics == Get(metadata, "code_metrics", <<>>)
        services == Get(metadata, "services", <<>>)
        \* the metadata built by extract_metadata has no "services" key, so
        \* `if services and mcp_client` is false and _analyze_services is not entered
        analyzed_services == <<>>
        summary_result == summarize_repository(llm_client, repository, file_list,
                                               Get(repository, "readme", None))
    IN IF ~summary_result.ok THEN summary_result
       ELSE Ok([summary |-> Get(summary_result.val, "summary",
                                _generate_fallback_summary(repository, code_metrics)),
                insights |-> Get(summary_result.val, "insights", <<>>)
                               \o _generate_code_insights(code_metrics, tech_stack),
                recommendations |-> Get(summary_result.val, "recommendations", <<>>)
                                      \o _generate_recommendations(metadata),
                services |-> analyzed_services])

-----------------------------------------------------------------------------
\* JsonFormatter (processors/json_formatter.py)

MAX_FILES_IN_OUTPUT == 500

\* x.replace(".", "").replace("-", "").replace("_", "").lower()
normalized(x) == Lower(SelectSeq(x, LAMBDA c : c \notin {".", "-", "_"}))

\* names_order: the order in which `for other_service in service_names` iterates the set
_extract_connections(services, names_order) ==
  LET edges(service) ==
        LET source == service.name
            dependencies == Get(service, "dependencies", <<>>)
        IN Flatten([d \in 1..Len(dependencies) |->
             Flatten([o \in 1..Len(names_order) |->
               IF source # names_order[o]
                  /\ Contains(normalized(dependencies[d]), normalized(names_order[o]))
               THEN << [from |-> source, to |-> names_order[o],
                        type |-> "dependency", via |-> dependencies[d]] >>
               ELSE <<>>])])
  IN Unique(Flatten([s \in 1..Len(services) |-> edges(services[s])]))

_analyze_patterns(services) ==
  IF services = <<>> THEN <<>>
  ELSE
    LET technologies == Flatten([s \in 1..Len(services) |-> Get(services[s], "technologies", <<>>)])
    IN [total_services |-> Len(services),
        service_types |-> Counts([s \in 1..Len(services) |-> Get(services[s], "type", "unknown")]),
        shared_technologies |-> SelectSeq(Counts(technologies), LAMBDA item : item[2] > 1)]

_format_repository_enhanced(repository, analysis, names_order) ==
  LET repo_name == Get(repository, "name", "")
      repo_owner == Get(repository, "owner", "")
      services == Get(analysis, "services", <<>>)
  IN [name |-> repo_name,
      owner |-> repo_owner,
      description |-> Get(repository, "description", ""),
      stars |-> Get(repository, "stars", 0),
      url |-> <<"https://github.com", repo_owner, repo_name>>,
      overview |-> Get(analysis, "summary", ""),
      services |-> services,
      connections |-> _extract_connections(services, names_order),
      patterns |-> _analyze_patterns(services)]

_format_files(files) ==
  [i \in 1..(IF Len(files) < MAX_FILES_IN_OUTPUT THEN Len(files) ELSE MAX_FILES_IN_OUTPUT) |->
     [path |-> Get(files[i], "path", <<>>),
      name |-> Get(files[i], "name", <<>>),
      extension |-> Get(files[i], "extension", <<>>),
      size |-> Get(files[i], "size", 0),
      language |-> Get(files[i], "language", None)]]

_format_dependencies(dependencies) ==
  [i \in 1..Len(dependencies) |->
     [name |-> Get(dependencies[i], "name", <<>>),
      version |-> Get(dependencies[i], "version", NoneText),
      type |-> Get(dependencies[i], "type", "unknown"),
      sourceFile |-> Get(dependencies[i], "source_file", <<>>)]]

_format_code_metrics(metrics) ==
  [total_files |-> Get(metrics, "total_files", 0),
   total_size_bytes |-> Get(metrics, "total_size_bytes", 0),
   languages_breakdown |-> Get(metrics, "languages_breakdown", <<>>),
   file_types |-> Get(metrics, "file_types", <<>>)]

\* tech_order: the order in which list(tech_stack) lists the set of names
_format_metadata(metadata, tech_order) ==
  [files |-> _format_files(Get(metadata, "files", <<>>)),
   dependencies |-> _format_dependencies(Get(metadata, "dependencies", <<>>)),
   code_metrics |-> _format_code_metrics(Get(metadata, "code_metrics", <<>>)),
   tech_stack |-> tech_order]

_format_analysis(analysis) ==
  [summary |-> Get(analysis, "summary", ""),
   insights |-> Get(analysis, "insights", <<>>),
   recommendations |-> Get(analysis, "recommendations", <<>>)]

\* JsonFormatter.format called without issues, as generate_json calls it; the
\* text json.dumps returns is the one-element sequence holding the document,
\* the empty text is <<>>; now is what datetime.utcnow() returns
format(repository, metadata, analysis, now, tech_order, names_order) ==
  << [analysis_metadata |->
        [analyzed_at |-> now,
         repository |-> [owner |-> Get(repository, "owner", ""),
                         name |-> Get(repository, "name", "")],
         analyzer_version |-> "1.0.0"],
      repository |-> _format_repository_enhanced(repository, analysis, names_order),
      metadata |-> _format_metadata(metadata, tech_order),
      analysis |-> _format_analysis(analysis)] >>

\* json.loads of a text that json.dumps made of a dict whose values are dicts,
\* as format returns it: what validate sees of it are the types and the keys
json_loads(text) ==
  [json |-> "value",
   value |-> [type |-> "object",
              members |-> [k \in DOMAIN text[1] |->
                             [type |-> "object", members |-> text[1][k]]]]]

\* all(key in v for key in keys) for a value v that json.loads returned: a dict
\* has keys, a list has elements, a str has substrings (words: the keys that
\* occur in it); for a number, a bool or null the operator `in` raises
all_in(keys, v) ==
  IF v.type = "object" THEN Ok(\A key \in keys : key \in DOMAIN v.members)
  ELSE IF v.type = "array" THEN Ok(\A key \in keys : key \in v.items)
  ELSE IF v.type = "string" THEN Ok(\A key \in keys : key \in v.words)
  ELSE Raise("TypeError")

\* json_output is the text given by what json.loads makes of it:
\* [json |-> "malformed"] or [json |-> "value", value |-> the value parsed]
validate(json_output) ==
  IF json_output.json = "malformed" THEN Ok(FALSE)
  ELSE
    LET data == json_output.value
        top == all_in({"repository", "metadata", "analysis"}, data)
    IN IF ~top.ok THEN top
       ELSE IF ~top.val THEN Ok(FALSE)
       ELSE IF data.type # "object" THEN Raise("TypeError")
       ELSE
         LET repo == all_in({"name", "owner"}, data.members["repository"])
             metadata == all_in({"files", "dependencies", "codeMetrics", "techStack"},
                                data.members["metadata"])
             analysis == all_in({"summary", "insights", "recommendations"},
                                data.members["analysis"])
         IN IF ~repo.ok THEN repo
            ELSE IF ~repo.val THEN Ok(FALSE)
            ELSE IF ~metadata.ok THEN metadata
            ELSE IF ~metadata.val THEN Ok(FALSE)
            ELSE IF ~analysis.ok THEN analysis
            ELSE Ok(analysis.val)

-----------------------------------------------------------------------------
\* ProcessorState (graph/state.py)

\* an initial state whose error list is not fresh
create_initial_state_seeded(repo_owner, repo_name) ==
  [repo_owner |-> repo_owner,
   repo_name |-> repo_name,
   current_stage |-> "init",
   raw_files |-> <<>>,
   raw_content |-> <<>>,
   repository |-> [name |-> repo_name, owner |-> repo_owner,
                   languages |-> <<>>, structure |-> <<>>],
   metadata |-> [files |-> <<>>,
                 dependencies |-> <<>>,
                 code_metrics |-> [total_files |-> 0, total_lines |-> 0,
                                   languages_breakdown |-> <<>>, file_types |-> <<>>],
                 tech_stack |-> <<>>],
   analysis |-> [summary |-> "", insights |-> <<>>, recommendations |-> <<>>],
   json_output |-> <<>>,
   errors |-> << <<"Earlier run failed", "Exception">> >>,
   is_complete |-> FALSE,
   should_continue |-> TRUE]

create_initial_state(repo_owner, repo_name) ==
  [repo_owner |-> repo_owner,
   repo_name |-> repo_name,
   current_stage |-> "init",
   raw_files |-> <<>>,
   raw_content |-> <<>>,
   repository |-> [name |-> repo_name, owner |-> repo_owner,
                   languages |-> <<>>, structure |-> <<>>],
   metadata |-> [files |-> <<>>,
                 dependencies |-> <<>>,
                 code_metrics |-> [total_files |-> 0, total_lines |-> 0,
                                   languages_breakdown |-> <<>>, file_types |-> <<>>],
                 tech_stack |-> <<>>],
   analysis |-> [summary |-> "", insights |-> <<>>, recommendations |-> <<>>],
   json_output |-> <<>>,
   errors |-> <<>>,
   is_complete |-> FALSE,
   should_continue |-> TRUE]

-----------------------------------------------------------------------------
\* ProcessingNodes (graph/nodes.py).  Each stage is a try block and its
\* except handler; X_try is the value the try block ends with: Ok(state) when
\* it runs to its end, Raise(e) when a call in it raises.

\* a handler that lets the exception through
except_handler_reraises(st, message, e) == Raise(e)

\* except Exception as e: errors.append(f"{message}: {e}"); should_continue = False
except_handler(st, message, e) ==
  Ok([st EXCEPT !.errors = Append(@, <<message, e>>), !.should_continue = FALSE])

analyze_repository_try(st, mcp_client) ==
  LET repo_info == get_repository_info(mcp_client, st.repo_owner, st.repo_name)
      file_structure == get_file_structure(mcp_client, st.repo_owner, st.repo_name,
                                           <<>>, TRUE, 3)
  IN IF ~repo_info.ok THEN repo_info
     ELSE IF ~file_structure.ok THEN file_structure
     ELSE Ok([st EXCEPT
                !.repository =
                   [name |-> Get(repo_info.val, "name", st.repo_name),
                    owner |-> Get(repo_info.val, "owner", st.repo_owner),
                    description |-> Get(repo_info.val, "description", None),
                    languages |-> Get(repo_info.val, "languages", <<>>),
                    default_branch |-> Get(repo_info.val, "default_branch", "main"),
                    structure |-> file_structure.val],
                !.raw_files = Get(file_structure.val, "files", <<>>)])

analyze_repository(st, mcp_client) ==
  LET entered == [st EXCEPT !.current_stage = "repository_analysis"]
      done == analyze_repository_try(entered, mcp_client)
  IN IF done.ok THEN done
     ELSE except_handler(entered, "Repository analysis failed", done.exc)

\* metadata_extractor: "default" is MetadataExtractor(), "raises" an injected
\* extractor whose first call raises; order: see identify_tech_stack
extract_metadata_try(st, metadata_extractor, mcp_client, order) ==
  IF metadata_extractor = "raises" THEN Raise("Exception")
  ELSE
    LET files_metadata ==
          extract_files_metadata(st.raw_files, mcp_client, st.repo_owner, st.repo_name)
        dependencies ==
          extract_dependencies(st.raw_files, mcp_client, st.repo_owner, st.repo_name)
        code_metrics == calculate_code_metrics(files_metadata)
        tech_stack == identify_tech_stack(files_metadata, dependencies.val, order)
    IN IF ~dependencies.ok THEN dependencies
       ELSE Ok([st EXCEPT !.metadata = [files |-> files_metadata,
                                        dependencies |-> dependencies.val,
                                        code_metrics |-> code_metrics,
                                        tech_stack |-> tech_stack]])

extract_metadata(st, metadata_extractor, mcp_client, order) ==
  LET entered == [st EXCEPT !.current_stage = "metadata_extraction"]
      done == extract_metadata_try(entered, metadata_extractor, mcp_client, order)
  IN IF done.ok THEN done
     ELSE except_handler(entered, "Metadata extraction failed", done.exc)

\* the analysis a mock analyzer returns (tests/test_nodes.py)
MockAnalysis ==
  [summary |-> "Analyzed summary",
   insights |-> << <<"Analysis insight">> >>,
   recommendations |-> << <<"Analysis recommendation">> >>]

\* code_analyzer: "default" is CodeAnalyzer(), called as format_data calls it;
\* "five_args" an injected analyzer that hands the call on to
\* CodeAnalyzer.analyze with issues = {} and mcp_client = None added;
\* "mock" returns MockAnalysis; "raises" raises
format_data_try(st, code_analyzer, llm_client) ==
  LET analysis ==
        IF code_analyzer = "default"
          THEN analyze(<<st.repository, st.metadata, llm_client>>)
        ELSE IF code_analyzer = "five_args"
          THEN analyze(<<st.repository, st.metadata, llm_client,
                         [issues |-> <<>>, pull_requests |-> <<>>], None>>)
        ELSE IF code_analyzer = "mock" THEN Ok(MockAnalysis)
        ELSE Raise("Exception")
  IN IF ~analysis.ok THEN analysis
     ELSE Ok([st EXCEPT !.analysis = analysis.val])

format_data(st, code_analyzer, llm_client) ==
  LET entered == [st EXCEPT !.current_stage = "data_formatting"]
      done == format_data_try(entered, code_analyzer, llm_client)
  IN IF done.ok THEN done
     ELSE except_handler(entered, "Data formatting failed", done.exc)

\* json_formatter: "default" is JsonFormatter(), "raises" an injected
\* formatter whose format raises
generate_json_try(st, json_formatter, now, tech_order, names_order) ==
  IF json_formatter = "raises" THEN Raise("Exception")
  ELSE Ok([st EXCEPT
             !.json_output = format(st.repository, st.metadata, st.analysis,
                                    now, tech_order, names_order),
             !.is_complete = TRUE])

\* a generate_json that sets is_complete before the formatter is called
generate_json_completes_early(st, json_formatter, now, tech_order, names_order) ==
  LET entered == [st EXCEPT !.current_stage = "json_generation", !.is_complete = TRUE]
      done == generate_json_try(entered, json_formatter, now, tech_order, names_order)
  IN IF done.ok THEN done
     ELSE except_handler(entered, "JSON generation failed", done.exc)

generate_json(st, json_formatter, now, tech_order, names_order) ==
  LET entered == [st EXCEPT !.current_stage = "json_generation"]
      done == generate_json_try(entered, json_formatter, now, tech_order, names_order)
  IN IF done.ok THEN done
     ELSE except_handler(entered, "JSON generation failed", done.exc)

\* a routing function that looks at is_complete only
should_continue_ignores_flag(st) ==
  IF Get(st, "is_complete", FALSE) THEN "end" ELSE "continue"

should_continue(st) ==
  IF ~Get(st, "should_continue", TRUE) THEN "end"
  ELSE IF Get(st, "is_complete", FALSE) THEN "end"
  ELSE "continue"

-----------------------------------------------------------------------------
\* CodeProcessorWorkflow (graph/workflow.py)

\* edges that route analyze_repository straight to format_data
_build_graph_skips ==
  [analyze_repository |-> [continue |-> "format_data", end |-> "END"],
   extract_metadata |-> [continue |-> "format_data", end |-> "END"],
   format_data |-> [continue |-> "generate_json", end |-> "END"]]

\* the conditional edges added by _build_graph
_build_graph ==
  [analyze_repository |-> [continue |-> "extract_metadata", end |-> "END"],
   extract_metadata |-> [continue |-> "format_data", end |-> "END"],
   format_data |-> [continue |-> "generate_json", end |-> "END"]]

\* a graph whose edges are unconditional
next_node_unconditional(node, st) ==
  IF node = "generate_json" THEN "END"
  ELSE _build_graph[node]["continue"]

\* the node the compiled graph runs after `node` has returned st
next_node(node, st) ==
  IF node = "generate_json" THEN "END"
  ELSE _build_graph[node][should_continue(st)]

-----------------------------------------------------------------------------
\* ProcessorResult (main.py)

is_complete(final_state) == Get(final_state, "is_complete", FALSE)

has_errors(final_state) == Len(Get(final_state, "errors", <<>>)) > 0

-----------------------------------------------------------------------------
\* The workflow objects and the remote snapshots explored

REPO_OWNER == "test-owner"

REPO_NAME == "test-repo"

README == [path |-> <<"R","E","A","D","M","E",".","m","d">>, name |-> <<"R","E","A","D","M","E",".","m","d">>, size |-> 100]

APP_PY == [path |-> <<"s","r","c","/","a","p","i","/","a","p","p",".","p","y">>, name |-> <<"a","p","p",".","p","y">>, size |-> 10]

PACKAGE_JSON == [path |-> <<"s","r","c","/","w","e","b","/","p","a","c","k","a","g","e",".","j","s","o","n">>, name |-> <<"p","a","c","k","a","g","e",".","j","s","o","n">>, size |-> 20]

PackageText ==
  [json |-> "object",
   data |-> [dependencies |->
               [type |-> "object",
                items |-> << <<<<"r","e","a","c","t">>, <<"^","1","8",".","2",".","0">>>> >>]]]

\* code_analyzer, metadata_extractor and json_formatter are the optional
\* constructor arguments of CodeProcessorWorkflow
Workflows ==
  [metadata_extractor : {"default", "raises"},
   code_analyzer : {"default", "five_args", "mock", "raises"},
   json_formatter : {"default", "raises"}]

RepoInfoResponses ==
  {[kind |-> "status"]}
  \cup {[kind |-> "ok",
         data |-> [name |-> REPO_NAME, owner |-> REPO_OWNER, description |-> d,
                   languages |-> <<"Python", "JavaScript">>, default_branch |-> "main",
                   stars |-> 7]] : d \in {None, "Test description"}}

\* an entry of a listing
File(f) == [type |-> "file", path |-> f.path, name |-> f.name, size |-> f.size]

Dir(path, name) == [type |-> "dir", path |-> path, name |-> name]

\* the root cannot be reached; the root answers 404; a repository holding
\* README.md; a repository holding src/api/app.py and src/web/package.json
ListingResponses ==
  {<<>> :> [kind |-> "transport_error"],
   <<>> :> [kind |-> "status"],
   <<>> :> [kind |-> "ok", items |-> <<File(README)>>],
   (<<>> :> [kind |-> "ok", items |-> <<Dir(<<"s","r","c">>, <<"s","r","c">>)>>])
     @@ (<<"s","r","c">> :>
           [kind |-> "ok",
            items |-> <<Dir(<<"s","r","c","/","a","p","i">>, <<"a","p","i">>),
                        Dir(<<"s","r","c","/","w","e","b">>, <<"w","e","b">>)>>])
     @@ (<<"s","r","c","/","a","p","i">> :> [kind |-> "ok", items |-> <<File(APP_PY)>>])
     @@ (<<"s","r","c","/","w","e","b">> :> [kind |-> "ok", items |-> <<File(PACKAGE_JSON)>>])}

ContentResponses ==
  {PACKAGE_JSON.path :> [kind |-> "status"],
   PACKAGE_JSON.path :> [kind |-> "ok", text |-> PackageText]}

IssuesResponses ==
  {[kind |-> "transport_error"], [kind |-> "ok", issues |-> <<>>, pull_requests |-> <<>>]}

LlmResponses ==
  {[kind |-> "raises"],
   [kind |-> "ok",
    reply |-> [summary |-> "LLM summary", insights |-> << <<"LLM insight">> >>,
               recommendations |-> <<>>]]}

Remotes ==
  [repo_info : RepoInfoResponses, listing : ListingResponses, content : ContentResponses,
   issues : IssuesResponses, llm : LlmResponses]

-----------------------------------------------------------------------------
\* The state machine

\* before the first call of process(), state shows the value that call starts from
Init ==
  /\ workflow \in Workflows
  /\ remote \in Remotes
  /\ pc = "idle"
  /\ state = create_initial_state(REPO_OWNER, REPO_NAME)
  /\ run = 0
  /\ invoked = <<>>
  /\ routes = <<>>
  /\ results = <<>>
  /\ clock = 0
  /\ call = [op |-> "none"]

\* a node has returned `done`; the graph routes on its state
NodeReturns(node, try, done) ==
  /\ invoked' = Append(invoked, [node |-> node, raised |-> IF try.ok THEN None ELSE try.exc])
  /\ clock' = clock + 1
  /\ IF done.ok
     THEN /\ state' = done.val
          /\ pc' = next_node(node, done.val)
          /\ routes' = IF node = "generate_json" THEN routes
                       ELSE Append(routes, should_continue(done.val))
     ELSE /\ pc' = "raised"
          /\ UNCHANGED <<state, routes>>
  /\ UNCHANGED <<workflow, remote, run, results, call>>

\* CodeProcessorWorkflow.process up to the start of the graph
Process ==
  /\ pc = "idle"
  /\ run < MaxRuns
  /\ state' = create_initial_state(REPO_OWNER, REPO_NAME)
  /\ pc' = "analyze_repository"
  /\ run' = run + 1
  /\ invoked' = <<>>
  /\ routes' = <<>>
  /\ clock' = clock + 1
  /\ UNCHANGED <<workflow, remote, results, call>>

AnalyzeRepository ==
  /\ pc = "analyze_repository"
  /\ NodeReturns("analyze_repository",
                 analyze_repository_try(state, remote),
                 analyze_repository(state, remote))

ExtractMetadata ==
  /\ pc = "extract_metadata"
  /\ \E order \in SetOrders(observed_languages(
                    extract_files_metadata(state.raw_files, remote,
                                           state.repo_owner, state.repo_name))) :
       NodeReturns("extract_metadata",
                   extract_metadata_try(state, workflow.metadata_extractor, remote, order),
                   extract_metadata(state, workflow.metadata_extractor, remote, order))

FormatData ==
  /\ pc = "format_data"
  /\ NodeReturns("format_data",
                 format_data_try(state, workflow.code_analyzer, remote),
                 format_data(state, workflow.code_analyzer, remote))

GenerateJson ==
  /\ pc = "generate_json"
  /\ \E tech_order \in SetOrders(TechNames(Get(state.metadata, "tech_stack", <<>>))) :
     \E names_order \in SetOrders({s.name : s \in Range(Get(state.analysis, "services", <<>>))}) :
       NodeReturns("generate_json",
                   generate_json_try(state, workflow.json_formatter, clock, tech_order, names_order),
                   generate_json(state, workflow.json_formatter, clock, tech_order, names_order))

\* process returns the final state to its caller
Return ==
  /\ pc = "END"
  /\ results' = Append(results, state)
  /\ pc' = "idle"
  /\ clock' = clock + 1
  /\ UNCHANGED <<workflow, remote, state, run, invoked, routes, call>>

Next ==
  \/ Process
  \/ AnalyzeRepository
  \/ ExtractMetadata
  \/ FormatData
  \/ GenerateJson
  \/ Return

Spec == Init /\ [][Next]_vars

-----------------------------------------------------------------------------
\* Two calls of process() on one workflow object, interleaved at their
\* suspension points. Here state is the heap of ProcessorState objects,
\* run[r] the object that call r works on (0 before the call), pc[r] the node
\* call r is in and whether the node is suspended at an await, invoked[r] the
\* nodes call r has entered and results[r] what call r returned. A node
\* writes into its state object in place: current_stage when it is entered,
\* the rest when its awaits have returned. generate_json awaits nothing.

\* a create_initial_state that hands out one module-level object
module_level_state(r) == 1

\* the object the r-th call of create_initial_state returns: a new one
new_state(r) == r

InitInterleaved ==
  /\ workflow \in {w \in Workflows : w.code_analyzer \in {"default", "mock"}}
  /\ remote \in {snapshot \in Remotes :
                   /\ snapshot.issues.kind = "ok"
                   /\ snapshot.repo_info.kind = "ok" => snapshot.repo_info.data.description # None
                   /\ \A path \in DOMAIN snapshot.content : snapshot.content[path].kind = "ok"}
  /\ pc = [r \in 1..2 |-> [node |-> "idle", suspended |-> FALSE]]
  /\ state = [object \in 1..2 |-> <<>>]
  /\ run = [r \in 1..2 |-> 0]
  /\ invoked = [r \in 1..2 |-> <<>>]
  /\ routes = <<>>
  /\ results = [r \in 1..2 |-> <<>>]
  /\ clock = 0
  /\ call = [op |-> "none"]

\* process(): create_initial_state, then the graph starts at its entry point
ProcessCalled(r) ==
  /\ pc[r].node = "idle"
  /\ run[r] = 0
  /\ run' = [run EXCEPT ![r] = new_state(r)]
  /\ state' = [state EXCEPT ![new_state(r)] =
                 create_initial_state(REPO_OWNER, IF r = 1 THEN REPO_NAME ELSE "second-repo")]
  /\ pc' = [pc EXCEPT ![r] = [node |-> "analyze_repository", suspended |-> FALSE]]
  /\ clock' = clock + 1
  /\ UNCHANGED <<workflow, remote, invoked, routes, results, call>>

\* a node starts: it writes current_stage and suspends at its first await
NodeSuspends(r) ==
  /\ pc[r].node \in {"analyze_repository", "extract_metadata", "format_data"}
  /\ ~pc[r].suspended
  /\ state' = [state EXCEPT ![run[r]].current_stage =
                 CASE pc[r].node = "analyze_repository" -> "repository_analysis"
                   [] pc[r].node = "extract_metadata" -> "metadata_extraction"
                   [] pc[r].node = "format_data" -> "data_formatting"]
  /\ pc' = [pc EXCEPT ![r].suspended = TRUE]
  /\ invoked' = [invoked EXCEPT ![r] = Append(@, pc[r].node)]
  /\ clock' = clock + 1
  /\ UNCHANGED <<workflow, remote, run, routes, results, call>>

\* the awaits of a suspended node have returned: the node writes the rest
\* into its state object and the graph routes on it
NodeResumes(r) ==
  /\ pc[r].suspended
  /\ \E order \in SetOrders(observed_languages(
                    extract_files_metadata(state[run[r]].raw_files, remote,
                                           REPO_OWNER, REPO_NAME))) :
       LET written(st) ==
             /\ state' = [state EXCEPT ![run[r]] = st]
             /\ pc' = [pc EXCEPT ![r] = [node |-> next_node(pc[r].node, st),
                                         suspended |-> FALSE]]
           node(st) ==
             CASE pc[r].node = "analyze_repository" -> analyze_repository(st, remote)
               [] pc[r].node = "extract_metadata" ->
                    extract_metadata(st, workflow.metadata_extractor, remote, order)
               [] pc[r].node = "format_data" ->
                    format_data(st, workflow.code_analyzer, remote)
       IN written(node(state[run[r]]).val)
  /\ clock' = clock + 1
  /\ UNCHANGED <<workflow, remote, run, invoked, routes, results, call>>

GenerateJsonRuns(r) ==
  /\ pc[r].node = "generate_json"
  /\ \E tech_order \in SetOrders(TechNames(Get(state[run[r]].metadata, "tech_stack", <<>>))) :
     \E names_order \in
          SetOrders({s.name : s \in Range(Get(state[run[r]].analysis, "services", <<>>))}) :
       state' = [state EXCEPT ![run[r]] =
                   generate_json(@, workflow.json_formatter, clock, tech_order, names_order).val]
  /\ pc' = [pc EXCEPT ![r] = [node |-> "END", suspended |-> FALSE]]
  /\ invoked' = [invoked EXCEPT ![r] = Append(@, "generate_json")]
  /\ clock' = clock + 1
  /\ UNCHANGED <<workflow, remote, run, routes, results, call>>

\* ainvoke hands the final state back and process() returns it
ProcessReturns(r) ==
  /\ pc[r].node = "END"
  /\ results' = [results EXCEPT ![r] = state[run[r]]]
  /\ pc' = [pc EXCEPT ![r] = [node |-> "returned", suspended |-> FALSE]]
  /\ clock' = clock + 1
  /\ UNCHANGED <<workflow, remote, state, run, invoked, routes, call>>

NextInterleaved ==
  \E r \in 1..2 :
    \/ ProcessCalled(r)
    \/ NodeSuspends(r)
    \/ NodeResumes(r)
    \/ GenerateJsonRuns(r)
    \/ ProcessReturns(r)

SpecInterleaved == InitInterleaved /\ [][NextInterleaved]_vars

-----------------------------------------------------------------------------
\* Direct calls of the methods of the clients and processors, as the unit
\* tests and the other callers of the classes make them: no workflow runs

NoWorkflow ==
  /\ workflow = <<>>
  /\ remote = <<>>
  /\ pc = "idle"
  /\ state = <<>>
  /\ run = 0
  /\ invoked = <<>>
  /\ routes = <<>>
  /\ results = <<>>
  /\ clock = 0
  /\ call = [op |-> "none"]

pipeline == <<workflow, remote, pc, state, run, invoked, routes, results, clock>>

\* JsonFormatter().format and JsonFormatter().validate

\* a JSON object with the given keys
Object(keys) == [type |-> "object", members |-> [k \in keys |-> [type |-> "null"]]]

\* values a section of a document can hold: a number, a list of key names, an
\* object with the keys validate asks for, one with the keys format writes,
\* an empty object
SectionValues ==
  {[type |-> "number"],
   [type |-> "array",
    items |-> {"name", "owner", "files", "dependencies", "codeMetrics", "techStack",
               "summary", "insights", "recommendations"}],
   Object({"name", "owner", "files", "dependencies", "codeMetrics", "techStack",
           "summary", "insights", "recommendations"}),
   Object({"name", "owner", "files", "dependencies", "code_metrics", "tech_stack",
           "summary", "insights", "recommendations"}),
   Object({})}

\* the texts validate is given
ValidateInputs ==
  {[json |-> "malformed"]}
  \cup {[json |-> "value", value |-> v] :
          v \in {[type |-> "number"], [type |-> "null"],
                 [type |-> "array", items |-> {}],
                 [type |-> "array", items |-> {"repository", "metadata", "analysis"}],
                 [type |-> "string", words |-> {"repository"}],
                 [type |-> "string", words |-> {"repository", "metadata", "analysis"}]}}
  \cup {[json |-> "value", value |-> [type |-> "object", members |-> m]] :
          m \in UNION {[present -> SectionValues] :
                         present \in SUBSET {"repository", "metadata", "analysis"}}}

\* the dicts format is given (tests/test_json_formatter.py)
FormatRepositories ==
  {<<>>,
   [name |-> REPO_NAME, owner |-> REPO_OWNER],
   [name |-> REPO_NAME, owner |-> REPO_OWNER, description |-> "A test repository",
    languages |-> <<"Python", "JavaScript">>, default_branch |-> "main"]}

FormatMetadata ==
  {<<>>,
   [files |-> <<file_metadata(APP_PY)>>,
    dependencies |-> <<>>,
    code_metrics |-> calculate_code_metrics(<<file_metadata(APP_PY)>>),
    tech_stack |-> <<[name |-> "Python", category |-> "language", version |-> NoneText],
                     [name |-> "FastAPI", category |-> "framework", version |-> NoneText]>>]}

FormatAnalyses ==
  {<<>>,
   MockAnalysis,
   [summary |-> "This is a test repository.", insights |-> <<>>, recommendations |-> <<>>,
    services |-> <<[name |-> <<"a","p","i">>, dependencies |-> <<>>, type |-> "service"]>>]}

Format ==
  /\ \E repository \in FormatRepositories, metadata \in FormatMetadata,
        analysis \in FormatAnalyses :
     \E tech_order \in SetOrders(TechNames(Get(metadata, "tech_stack", <<>>))) :
     \E names_order \in SetOrders({x.name : x \in Range(Get(analysis, "services", <<>>))}) :
       call' = [op |-> "format",
                args |-> <<repository, metadata, analysis>>,
                ret |-> format(repository, metadata, analysis, clock, tech_order, names_order)]
  /\ UNCHANGED pipeline

Validate ==
  /\ \E json_output \in ValidateInputs :
       call' = [op |-> "validate", args |-> json_output, ret |-> validate(json_output)]
  /\ UNCHANGED pipeline

\* validate(formatter.format(...)): the text a call of format returned is validated
ValidateFormatted ==
  /\ call.op = "format"
  /\ call' = [op |-> "validate_formatted", args |-> call.ret,
              ret |-> validate(json_loads(call.ret))]
  /\ UNCHANGED pipeline

\* _extract_connections on one or two services, each with up to two
\* dependency names
ExtractConnections ==
  /\ call.op = "none"
  /\ LET names == {<<"A">>, <<"B">>, <<"O","r","d","e","r","s",".","A","P","I">>}
         referrers == {<<"b","-","c","l","i","e","n","t">>, <<"o","r","d","e","r","s","_","a","p","i","-","s","d","k">>, <<"l","o","d","a","s","h">>}
         descriptors ==
           {[name |-> name, dependencies |-> dependencies, type |-> "service"] :
              name \in names, dependencies \in UNION {[1..n -> referrers] : n \in 0..2}}
     IN \E n \in 1..2 :
        \E services \in [1..n -> descriptors] :
        \E names_order \in SetOrders({services[i].name : i \in 1..n}) :
          call' = [op |-> "_extract_connections", args |-> services,
                   ret |-> _extract_connections(services, names_order)]
  /\ UNCHANGED pipeline

NextFormatter ==
  \/ Format
  \/ Validate
  \/ ValidateFormatted
  \/ ExtractConnections

SpecFormatter == NoWorkflow /\ [][NextFormatter]_vars

\* GitHubMCPClient.get_file_structure

\* Largest max_depth the callers pass.
MaxDepth == 2

\* what a directory answers: its entries, a status other than 200, or no answer
Listing(kind, items) ==
  IF kind = "ok" THEN [kind |-> "ok", items |-> items] ELSE [kind |-> kind]

\* a repository with the directories a, a/b, a/b/c, a/b/c/d and z and a file
\* in each, where the root, a and a/b answer as `kinds` says
Tree(kinds) ==
  (<<>> :> Listing(kinds[1], <<Dir(<<"a">>, <<"a">>),
                               [type |-> "file", path |-> <<"r",".","p","y">>, name |-> <<"r",".","p","y">>, size |-> 4],
                               Dir(<<"z">>, <<"z">>)>>))
  @@ (<<"a">> :> Listing(kinds[2], <<Dir(<<"a","/","b">>, <<"b">>),
                                   [type |-> "file", path |-> <<"a","/","m",".","p","y">>, name |-> <<"m",".","p","y">>, size |-> 6]>>))
  @@ (<<"a","/","b">> :> Listing(kinds[3], <<Dir(<<"a","/","b","/","c">>, <<"c">>),
                                           [type |-> "file", path |-> <<"a","/","b","/","n",".","p","y">>, name |-> <<"n",".","p","y">>, size |-> 8]>>))
  @@ (<<"a","/","b","/","c">> :> Listing("ok", <<Dir(<<"a","/","b","/","c","/","d">>, <<"d">>),
                                                    [type |-> "file", path |-> <<"a","/","b","/","c","/","o",".","p","y">>, name |-> <<"o",".","p","y">>, size |-> 10]>>))
  @@ (<<"a","/","b","/","c","/","d">> :> Listing("ok", <<[type |-> "file", path |-> <<"a","/","b","/","c","/","d","/","p",".","p","y">>, name |-> <<"p",".","p","y">>, size |-> 12]>>))
  @@ (<<"z">> :> Listing("ok", <<[type |-> "file", path |-> <<"z","/","q",".","p","y">>, name |-> <<"q",".","p","y">>, size |-> 6],
                               [type |-> "symlink", path |-> <<"z","/","l">>, name |-> <<"l">>]>>))
  @@ (<<"r",".","p","y">> :> [kind |-> "object", item |-> [type |-> "file", path |-> <<"r",".","p","y">>, name |-> <<"r",".","p","y">>, size |-> 4]])

\* the trees, and a remote with cyclic listings: the root lists a and
\* itself, a lists itself, the root and a file
TreeRemotes ==
  {[listing |-> Tree(kinds)] :
     kinds \in [1..3 -> {"ok", "status", "transport_error"}]}
  \cup {[listing |->
           (<<>> :> Listing("ok", <<Dir(<<"a">>, <<"a">>), Dir(<<>>, <<"l","o","o","p">>)>>))
           @@ (<<"a">> :> Listing("ok", <<Dir(<<"a">>, <<"s","e","l","f">>), Dir(<<>>, <<"u","p">>),
                                       [type |-> "file", path |-> <<"a","/","m",".","p","y">>,
                                        name |-> <<"m",".","p","y">>, size |-> 6]>>))]}

\* the paths a traversal is started at: the root, a directory, a file
StartPaths == {<<>>, <<"a">>, <<"r",".","p","y">>}

GetFileStructure ==
  /\ \E mcp_client \in TreeRemotes, path \in StartPaths, recursive \in BOOLEAN,
        max_depth \in 0..MaxDepth :
       call' = [op |-> "get_file_structure",
                args |-> [mcp_client |-> mcp_client, path |-> path,
                          recursive |-> recursive, max_depth |-> max_depth],
                ret |-> get_file_structure(mcp_client, REPO_OWNER, REPO_NAME,
                                           path, recursive, max_depth),
                requests |-> traversal(mcp_client, path, recursive, max_depth).val.requests]
  /\ UNCHANGED pipeline

NextTree == GetFileStructure

SpecTree == NoWorkflow /\ [][NextTree]_vars

\* GitHubMCPClient.get_service_files

\* Largest max_files the callers pass.
MaxFiles == 3

\* the entries of two service directories
ServiceEntries ==
  <<<<[type |-> "file", path |-> <<"s","/","R","E","A","D","M","E",".","m","d">>, name |-> <<"R","E","A","D","M","E",".","m","d">>],
      [type |-> "file", path |-> <<"s","/","u","t","i","l",".","p","y">>, name |-> <<"u","t","i","l",".","p","y">>],
      [type |-> "file", path |-> <<"s","/","G","e","m","f","i","l","e">>, name |-> <<"G","e","m","f","i","l","e">>],
      [type |-> "file", path |-> <<"s","/","a","p","p","s","e","t","t","i","n","g","s",".","j","s","o","n">>, name |-> <<"a","p","p","s","e","t","t","i","n","g","s",".","j","s","o","n">>],
      [type |-> "file", path |-> <<"s","/","m","a","i","n",".","p","y">>, name |-> <<"m","a","i","n",".","p","y">>],
      [type |-> "file", path |-> <<"s","/","p","a","c","k","a","g","e",".","j","s","o","n">>, name |-> <<"p","a","c","k","a","g","e",".","j","s","o","n">>],
      Dir(<<"s","/","l","i","b">>, <<"l","i","b">>),
      [type |-> "file", path |-> <<"s","/","D","o","c","k","e","r","f","i","l","e">>, name |-> <<"D","o","c","k","e","r","f","i","l","e">>],
      [type |-> "file", path |-> <<"s","/","L","I","C","E","N","S","E">>, name |-> <<"L","I","C","E","N","S","E">>],
      [type |-> "file", path |-> <<"s","/","m","a","i","n">>, name |-> <<"m","a","i","n">>]>>,
    <<[type |-> "file", path |-> <<"s","/","g","o",".","m","o","d">>, name |-> <<"g","o",".","m","o","d">>],
      [type |-> "file", path |-> <<"s","/","s","e","r","v","e","r",".","t","s">>, name |-> <<"s","e","r","v","e","r",".","t","s">>],
      [type |-> "file", path |-> <<"s","/","n","o","t","e","s",".","t","x","t">>, name |-> <<"n","o","t","e","s",".","t","x","t">>],
      [type |-> "file", path |-> <<"s","/","a","p","p","l","i","c","a","t","i","o","n",".","y","m","l">>, name |-> <<"a","p","p","l","i","c","a","t","i","o","n",".","y","m","l">>],
      [type |-> "file", path |-> <<"s","/","i","n","d","e","x">>, name |-> <<"i","n","d","e","x">>],
      [type |-> "file", path |-> <<"s","/","c","o","n","f","i","g",".","j","s","o","n">>, name |-> <<"c","o","n","f","i","g",".","j","s","o","n">>]>>>>

Reverse(seq) == [i \in 1..Len(seq) |-> seq[Len(seq) + 1 - i]]

\* what the service directory s answers
ServiceListings ==
  {[kind |-> "status"], [kind |-> "transport_error"],
   [kind |-> "ok", items |-> ServiceEntries[1]],
   [kind |-> "ok", items |-> Reverse(ServiceEntries[1])],
   [kind |-> "ok", items |-> ServiceEntries[2]]}

\* what the content requests answer: every file has a short text; some files
\* cannot be read (a status, or no answer); every file is longer than the
\* limit; every file is empty
ServiceContents ==
  LET files == SelectSeq(ServiceEntries[1] \o ServiceEntries[2], LAMBDA item : item.type = "file")
      paths == {files[i].path : i \in 1..Len(files)}
      long == [i \in 1..(CONTENT_LIMIT + 1) |-> "x"]
      unread == {<<"s","/","m","a","i","n">>, <<"s","/","a","p","p","s","e","t","t","i","n","g","s",".","j","s","o","n">>,
                 <<"s","/","s","e","r","v","e","r",".","t","s">>, <<"s","/","R","E","A","D","M","E",".","m","d">>}
  IN {[path \in paths |-> [kind |-> "ok", text |-> path]],
      [path \in paths |-> IF path \in unread THEN [kind |-> "status"]
                          ELSE [kind |-> "ok", text |-> path]],
      [path \in paths |-> IF path \in unread THEN [kind |-> "transport_error"]
                          ELSE [kind |-> "ok", text |-> path]],
      [path \in paths |-> [kind |-> "ok", text |-> long]],
      [path \in paths |-> [kind |-> "ok", text |-> <<>>]]}

ServiceRemotes ==
  {[listing |-> (<<"s">> :> listing)
                  @@ (<<"s","/","m","a","i","n",".","p","y">> :> [kind |-> "object", item |-> [type |-> "file", path |-> <<"s","/","m","a","i","n",".","p","y">>, name |-> <<"m","a","i","n",".","p","y">>]]),
    content |-> content] :
     listing \in ServiceListings, content \in ServiceContents}

GetServiceFiles ==
  /\ call.op = "none"
  /\ \E mcp_client \in ServiceRemotes, service_path \in {<<"s">>, <<"s","/","m","a","i","n",".","p","y">>},
        max_files \in 0..MaxFiles :
       LET response == contents(mcp_client, service_path)
           batch == service_files_batch(
                      mcp_client, REPO_OWNER, REPO_NAME,
                      IF response.kind = "ok" THEN response.items
                      ELSE IF response.kind = "object" THEN <<response.item>> ELSE <<>>,
                      max_files)
       IN call' = [op |-> "get_service_files",
                   args |-> [mcp_client |-> mcp_client, service_path |-> service_path,
                             max_files |-> max_files],
                   ret |-> get_service_files(mcp_client, REPO_OWNER, REPO_NAME,
                                             service_path, max_files),
                   prioritized_files |-> batch.prioritized_files,
                   attempted |-> batch.attempted]
  /\ UNCHANGED pipeline

NextServiceFiles == GetServiceFiles

SpecServiceFiles == NoWorkflow /\ [][NextServiceFiles]_vars

\* MetadataExtractor().extract_files_metadata, _get_dependency_type,
\* extract_dependencies and _parse_npm_dependencies; one call per behaviour

\* the file names the extractor is asked about
FileNames ==
  {<<"A","p","p",".","P","Y">>, <<"D","o","c","k","e","r","f","i","l","e">>,
   <<"D","O","C","K","E","R","F","I","L","E">>, <<"M","a","k","e","f","i","l","e">>,
   <<"G","N","U","m","a","k","e","f","i","l","e">>,
   <<"d","a","t","a",".","u","n","k","n","o","w","n">>,
   <<"a","p","p",".","d","o","c","k","e","r","f","i","l","e">>, <<"R","E","A","D","M","E">>,
   <<"a",".","t","a","r",".","g","z">>, <<"M","a","i","n",".","C","s">>,
   <<"p","a","c","k","a","g","e",".","j","s","o","n">>,
   <<"P","a","c","k","a","g","e",".","j","s","o","n">>,
   <<"p","a","c","k","a","g","e",".","j","s","o","n",".","b","a","k">>,
   <<"r","e","q","u","i","r","e","m","e","n","t","s",".","t","x","t">>,
   <<"r","e","q","u","i","r","e","m","e","n","t","s","-","d","e","v",".","t","x","t">>,
   <<"A","p","i",".","c","s","p","r","o","j">>,
   <<"A","p","i",".","c","s","p","r","o","j",".","u","s","e","r">>,
   <<".","c","s","p","r","o","j">>, <<"G","e","m","f","i","l","e">>,
   <<"g","o",".","m","o","d">>, <<"p","o","m",".","x","m","l">>,
   <<"D","i","r","e","c","t","o","r","y",".","P","a","c","k","a","g","e","s",".","p","r","o","p","s">>,
   <<"p","a","c","k","a","g","e","s",".","c","o","n","f","i","g">>,
   <<"b","u","i","l","d",".","g","r","a","d","l","e">>,
   <<"C","a","r","g","o",".","t","o","m","l">>, <<"P","i","p","f","i","l","e">>,
   <<"p","y","p","r","o","j","e","c","t",".","t","o","m","l">>}

ExtractFilesMetadata ==
  /\ call.op = "none"
  /\ \E name \in FileNames, other \in FileNames :
       LET files == <<[path |-> name, name |-> name, size |-> 0],
                      [path |-> <<"s","r","c","/","a","p","i","/">> \o other, name |-> other, size |-> 10]>>
       IN call' = [op |-> "extract_files_metadata",
                   args |-> files,
                   ret |-> extract_files_metadata(files, <<>>, REPO_OWNER, REPO_NAME)]
  /\ UNCHANGED pipeline

GetDependencyType ==
  /\ call.op = "none"
  /\ \E filename \in FileNames :
       call' = [op |-> "_get_dependency_type", args |-> filename,
                ret |-> _get_dependency_type(filename)]
  /\ UNCHANGED pipeline

\* a second package.json, outside src, and a document stored under the path
\* "package.json"
DOCS_PACKAGE_JSON ==
  [path |-> <<"d","o","c","s","/","p","a","c","k","a","g","e",".","j","s","o","n">>,
   name |-> <<"p","a","c","k","a","g","e",".","j","s","o","n">>, size |-> 30]

NOTES_MD == [path |-> <<"p","a","c","k","a","g","e",".","j","s","o","n">>, name |-> <<"n","o","t","e","s",".","m","d">>, size |-> 40]

\* what a package.json can hold: not JSON; JSON that is no object; an object
\* whose three sections each are absent, a map of up to two entries, a list or null
NpmContents ==
  LET entries == << <<<<"e","x","p","r","e","s","s">>, <<"^","4",".","1","8",".","0">>>>,
                    <<<<"j","e","s","t">>, <<"^","2","9",".","0",".","0">>>> >>
      members == {[type |-> "object", items |-> SubSeq(entries, 1, n)] : n \in 0..2}
                   \cup {[type |-> "array"], [type |-> "null"]}
      keys == {"dependencies", "devDependencies", "peerDependencies"}
  IN {[json |-> "malformed"], [json |-> "not_object"]}
     \cup {[json |-> "object", data |-> data] :
             data \in UNION {[present -> members] : present \in SUBSET keys}}

\* what the content request of a manifest answers
ManifestResponses ==
  {[kind |-> "status"], [kind |-> "transport_error"],
   [kind |-> "ok", text |-> PackageText],
   [kind |-> "ok", text |-> [json |-> "malformed"]],
   [kind |-> "ok", text |-> [json |-> "not_object"]],
   [kind |-> "ok", text |-> [json |-> "object",
                             data |-> [dependencies |-> PackageText.data.dependencies,
                                       devDependencies |-> [type |-> "array"]]]]}

ExtractDependencies ==
  /\ call.op = "none"
  /\ \E files \in {<<PACKAGE_JSON, DOCS_PACKAGE_JSON>>,
                    <<DOCS_PACKAGE_JSON, NOTES_MD, APP_PY, PACKAGE_JSON>>,
                    <<NOTES_MD>>} :
     \E first \in ManifestResponses, second \in ManifestResponses :
       LET mcp_client == [content |-> (PACKAGE_JSON.path :> first)
                                       @@ (DOCS_PACKAGE_JSON.path :> second)
                                       @@ (NOTES_MD.path :> [kind |-> "ok", text |-> PackageText])]
       IN call' = [op |-> "extract_dependencies",
                   args |-> [files |-> files, mcp_client |-> mcp_client],
                   ret |-> extract_dependencies(files, mcp_client, REPO_OWNER, REPO_NAME)]
  /\ UNCHANGED pipeline

ParseNpmDependencies ==
  /\ call.op = "none"
  /\ \E content \in NpmContents :
       call' = [op |-> "_parse_npm_dependencies", args |-> content,
                ret |-> _parse_npm_dependencies(content, PACKAGE_JSON.path)]
  /\ UNCHANGED pipeline

\* the lines of a requirements.txt. A requirement is a name, a comparator and
\* a version, with or without blanks around the comparator, a margin, a
\* trailing comment or a carriage return. A skipped line is blank, a comment,
\* longer than 500 characters between its margins, or starts with something
\* that is not a letter or digit. A named line starts with a letter or digit
\* and has another shape.
PipLines ==
  {[form |-> "requirement", margin |-> margin, name |-> name, gap |-> gap,
    comparator |-> comparator, version |-> version, trailer |-> trailer] :
     margin \in {<<>>, <<" "," ">>}, name \in {<<"a","i","o","h","t","t","p">>, <<"A","_","b","-","2">>}, gap \in {<<>>, <<" ">>},
     comparator \in {<<"=","=">>, <<">","=">>, <<"<">>, <<"=","=","=">>}, version \in {<<"3",".","9",".","0">>, <<"2",".","*">>},
     trailer \in {<<>>, <<" ","#"," ","p","i","n","n","e","d">>, <<"\r">>}}
  \cup {[form |-> "skipped", text |-> text] :
          text \in {<<>>, <<" "," ">>, <<"\t","\r">>, <<"#"," ","T","h","i","s"," ","i","s"," ","a"," ","c","o","m","m","e","n","t">>, <<" "," ","#","a","i","o","h","t","t","p","=","=","3",".","9",".","0">>,
                    <<"-","e"," ",".">>, <<".","h","i","d","d","e","n","=","=","1">>, <<"_","p","r","i","v","a","t","e",">","=","2">>, <<"=","=","3",".","9",".","0">>,
                    [i \in 1..501 |-> IF i = 2 THEN "=" ELSE "a"],
                    <<" ">> \o [i \in 1..501 |-> "7"] \o <<" ">>}}
  \cup {[form |-> "named", text |-> text] :
          text \in {<<"p","y","d","a","n","t","i","c">>, <<"p","y","d","a","n","t","i","c"," ","c","o","r","e">>, <<"z","o","p","e",".","i","n","t","e","r","f","a","c","e","=","=","5",".","0">>, <<"a","i","o","h","t","t","p","=","=">>,
                    <<"a","i","o","h","t","t","p",">","=","#","x">>, <<"a","i","o","h","t","t","p"," ","[","s","p","e","e","d","u","p","s","]">>,
                    [i \in 1..500 |-> IF i = 2 THEN "=" ELSE "a"],
                    [i \in 1..300 |-> " "] \o <<"a","i","o","h","t","t","p","=","=","3",".","9",".","0">> \o [i \in 1..300 |-> " "]}}

ParsePipDependencies ==
  /\ call.op = "none"
  /\ \E lines \in {<<line>> : line \in PipLines}
                    \cup UNION {[1..n -> {line \in PipLines :
                                            /\ line.form = "requirement" =>
                                                 line.comparator = <<">","=">> /\ line.trailer = <<>>
                                                 /\ line.gap = <<>> /\ line.margin = <<>>
                                            /\ line.form # "requirement" => Len(line.text) <= 19}]
                                : n \in 2..3} :
       LET text(line) ==
             IF line.form = "requirement"
             THEN line.margin \o line.name \o line.gap \o line.comparator \o line.gap
                    \o line.version \o line.trailer
             ELSE line.text
           content == Flatten([i \in 1..Len(lines) |->
                                 IF i = 1 THEN text(lines[i]) ELSE <<"\n">> \o text(lines[i])])
       IN call' = [op |-> "_parse_pip_dependencies", args |-> lines, content |-> content,
                   ret |-> _parse_pip_dependencies(content, <<"r","e","q","u","i","r","e","m","e","n","t","s",".","t","x","t">>)]
  /\ UNCHANGED pipeline

\* the lines of a go.mod: the markers that open and close a require block, and
\* statements made of an optional require keyword, a module path, a version
\* and a comment (any of which can be missing)
GoLines ==
  {[form |-> "open", text |-> text] : text \in {<<"r","e","q","u","i","r","e"," ","(">>, <<"\t","r","e","q","u","i","r","e"," ","(","\r">>}}
  \cup {[form |-> "close", text |-> text] : text \in {<<")">>, <<" ",")">>}}
  \cup {line \in
          {[form |-> "statement", margin |-> margin, keyword |-> keyword, path |-> path,
            gap |-> gap, version |-> version, comment |-> comment] :
             margin \in {<<>>, <<" "," "," "," ">>}, keyword \in {<<>>, <<"r","e","q","u","i","r","e"," ">>},
             path \in {<<>>, <<"g","i","t","h","u","b",".","c","o","m","/","g","i","n","-","g","o","n","i","c","/","g","i","n">>, <<"g","o">>},
             gap \in {<<" ">>, <<"\t"," ">>}, version \in {<<>>, <<"v","1",".","9",".","0">>, <<"1",".","2","1">>},
             comment \in {<<>>, <<" ","/","/"," ","i","n","d","i","r","e","c","t">>}} :
          /\ line.path = <<>> => line.version = <<>>
          /\ line.version = <<>> => line.comment = <<>>}

ParseGoDependencies ==
  /\ call.op = "none"
  /\ \E n \in 1..3 :
     \E lines \in [1..n -> {line \in GoLines :
                              \/ n = 1
                              \/ line.form # "statement" /\ line.text \in {<<"r","e","q","u","i","r","e"," ","(">>, <<")">>}
                              \/ /\ line.form = "statement"
                                 /\ line.margin = <<>> /\ line.gap = <<" ">>
                                 /\ line.version \in {<<>>, <<"v","1",".","9",".","0">>}
                                 /\ line.path \in {<<>>, <<"g","i","t","h","u","b",".","c","o","m","/","g","i","n","-","g","o","n","i","c","/","g","i","n">>}}] :
       LET text(line) ==
             IF line.form # "statement" THEN line.text
             ELSE line.margin \o line.keyword \o line.path
                    \o (IF line.path = <<>> \/ line.version = <<>> THEN <<>> ELSE line.gap)
                    \o line.version \o line.comment
           content == Flatten([i \in 1..Len(lines) |->
                                 IF i = 1 THEN text(lines[i]) ELSE <<"\n">> \o text(lines[i])])
       IN call' = [op |-> "_parse_go_dependencies", args |-> lines, content |-> content,
                   ret |-> _parse_go_dependencies(content, <<"g","o",".","m","o","d">>)]
  /\ UNCHANGED pipeline

\* identify_tech_stack on the metadata of any of four files and on up to two
\* dependency records
IdentifyTechStack ==
  /\ call.op = "none"
  /\ LET named(name) == file_metadata([path |-> name, name |-> name, size |-> 10])
         all_files == << file_metadata(APP_PY), named(<<"D","o","c","k","e","r","f","i","l","e">>),
                         named(<<"d","o","c","k","e","r","-","c","o","m","p","o","s","e",".","y","m","l">>),
                         file_metadata([path |-> <<".","g","i","t","h","u","b","/","w","o","r","k","f","l","o","w","s","/","c","i",".","y","m","l">>,
                                        name |-> <<"c","i",".","y","m","l">>, size |-> 10]) >>
         records == {[name |-> <<"r","e","a","c","t">>, version |-> <<"1","8",".","0",".","0">>],
                     [name |-> <<"r","e","a","c","t","-","d","o","m">>, version |-> <<"1","8",".","2",".","0">>],
                     [name |-> <<"e","x","p","r","e","s","s">>, version |-> <<"4",".","1","8",".","0">>],
                     [name |-> <<"M","i","c","r","o","s","o","f","t",".","A","s","p","N","e","t","C","o","r","e",".","M","v","c">>, version |-> <<"6",".","0",".","0">>],
                     [name |-> <<"p","y","t","e","s","t","-","d","j","a","n","g","o">>, version |-> NoneText],
                     [name |-> <<"d","o","c","k","e","r">>, version |-> <<"7",".","0",".","0">>],
                     [name |-> <<"l","o","d","a","s","h">>, version |-> <<"4",".","1","7",".","2","1">>]}
     IN \E chosen \in SUBSET Range(all_files), n \in 0..2 :
        \E dependencies \in [1..n -> records] :
          LET files_metadata == SelectSeq(all_files, LAMBDA file : file \in chosen)
          IN \E order \in SetOrders(observed_languages(files_metadata)) :
               call' = [op |-> "identify_tech_stack",
                        args |-> [files_metadata |-> files_metadata,
                                  dependencies |-> dependencies],
                        order |-> order,
                        ret |-> identify_tech_stack(files_metadata, dependencies, order)]
  /\ UNCHANGED pipeline

\* extract_services on the files of a repository with the services api, web
\* and api-gateway under src, a file directly under src and a file outside
\* src, and on up to two dependency records
ExtractServices ==
  /\ call.op = "none"
  /\ LET all_files ==
           << README, APP_PY,
              [path |-> <<"s","r","c","/","M","a","k","e","f","i","l","e">>, name |-> <<"M","a","k","e","f","i","l","e">>, size |-> 10],
              [path |-> <<"s","r","c","/","a","p","i","-","g","a","t","e","w","a","y","/","g","o",".","m","o","d">>, name |-> <<"g","o",".","m","o","d">>, size |-> 10],
              PACKAGE_JSON,
              [path |-> <<"s","r","c","/","a","p","i","/","r","o","u","t","e","s","/","u","s","e","r","s",".","p","y">>, name |-> <<"u","s","e","r","s",".","p","y">>, size |-> 10] >>
         records ==
           {[name |-> <<"e","x","p","r","e","s","s">>, version |-> <<"^","4",".","1","8",".","0">>, type |-> "dependencies",
             source_file |-> PACKAGE_JSON.path],
            [name |-> <<"f","l","a","s","k">>, version |-> <<"2",".","0">>, type |-> "pip",
             source_file |-> <<"s","r","c","/","a","p","i","/","r","e","q","u","i","r","e","m","e","n","t","s",".","t","x","t">>],
            [name |-> <<"g","i","t","h","u","b",".","c","o","m","/","g","i","n","-","g","o","n","i","c","/","g","i","n">>, version |-> <<"v","1",".","9",".","0">>, type |-> "go",
             source_file |-> <<"s","r","c","/","a","p","i","-","g","a","t","e","w","a","y","/","g","o",".","m","o","d">>],
            [name |-> <<"l","o","d","a","s","h">>, version |-> <<"4",".","1","7",".","2","1">>, type |-> "dependencies",
             source_file |-> <<"p","a","c","k","a","g","e",".","j","s","o","n">>]}
     IN \E chosen \in SUBSET Range(all_files), n \in 0..2 :
        \E dependencies \in [1..n -> records] :
          LET files == SelectSeq(all_files, LAMBDA file : file \in chosen)
          IN call' = [op |-> "extract_services",
                      args |-> [files |-> files, dependencies |-> dependencies],
                      ret |-> extract_services(files, dependencies)]
  /\ UNCHANGED pipeline

NextExtractor ==
  \/ ExtractFilesMetadata
  \/ GetDependencyType
  \/ ExtractDependencies
  \/ ParseNpmDependencies
  \/ ParsePipDependencies
  \/ ParseGoDependencies
  \/ IdentifyTechStack
  \/ ExtractServices

SpecExtractor == NoWorkflow /\ [][NextExtractor]_vars

-----------------------------------------------------------------------------
\* Properties of the pipeline

\* the stage functions in the order of the specification, with the tag each
\* writes to current_stage and the message its handler records
StageOrder ==
  << [node |-> "analyze_repository", tag |-> "repository_analysis",
      message |-> "Repository analysis failed"],
     [node |-> "extract_metadata", tag |-> "metadata_extraction",
      message |-> "Metadata extraction failed"],
     [node |-> "format_data", tag |-> "data_formatting",
      message |-> "Data formatting failed"],
     [node |-> "generate_json", tag |-> "json_generation",
      message |-> "JSON generation failed"] >>

IsPrefix(s, t) == Len(s) <= Len(t) /\ SubSeq(t, 1, Len(s)) = s

\* the stages invoked so far that ended in their except handler
Failures == {i \in 1..Len(invoked) : invoked[i].raised # None}

\* C1: when process returns, either is_complete is true and the error list is
\* empty (all four stages ran, none failed), or is_complete is false and the
\* error list is non-empty, the run having stopped at the first failing stage;
\* has_errors is true exactly in the second case.  Checked where the graph has
\* ended and on every result handed to a caller.
C1_CompleteXorErrors ==
  /\ pc = "END" =>
       \/ /\ is_complete(state) /\ state.errors = <<>> /\ ~has_errors(state)
          /\ Len(invoked) = 4 /\ Failures = {}
       \/ /\ ~is_complete(state) /\ state.errors # <<>> /\ has_errors(state)
          /\ Failures = {Len(invoked)}
  /\ \A i \in 1..Len(results) :
       /\ is_complete(results[i]) <=> results[i].errors = <<>>
       /\ has_errors(results[i]) <=> ~is_complete(results[i])

\* a run returned with errors after two stages had succeeded
C1_Witness ==
  /\ Len(results) = 1
  /\ has_errors(results[1]) /\ ~is_complete(results[1])
  /\ results[1].current_stage = "data_formatting"

C3_FixedOrder ==
  /\ Len(invoked) <= Len(StageOrder)
  /\ \A i \in 1..Len(invoked) : invoked[i].node = StageOrder[i].node
  /\ state.current_stage =
       IF invoked = <<>> THEN "init" ELSE StageOrder[Len(invoked)].tag

\* all four stages have run
C3_Witness ==
  /\ Len(invoked) = 4
  /\ state.current_stage = "json_generation"

\* C4: a stage whose work raises appends exactly one message (its own, naming
\* the exception) to errors, sets should_continue to false and returns the
\* state; no step leaves the graph with an exception.
C4_StageCatches ==
  [][ /\ pc' # "raised"
      /\ (run' = run /\ invoked' # invoked /\ invoked'[Len(invoked')].raised # None) =>
           /\ state'.errors =
                Append(state.errors, <<StageOrder[Len(invoked')].message,
                                       invoked'[Len(invoked')].raised>>)
           /\ ~state'.should_continue
           /\ state' = [state EXCEPT !.current_stage = StageOrder[Len(invoked')].tag,
                                     !.errors = state'.errors,
                                     !.should_continue = FALSE] ]_vars

\* the last stage raised and the run returned its state
C4_Witness ==
  /\ Len(results) = 1
  /\ Len(invoked) = 4 /\ invoked[4].raised # None
  /\ results[1].errors = << <<"JSON generation failed", "Exception">> >>

\* C5: once should_continue is false, repository, metadata and analysis keep
\* their values for the rest of the run.
C5_FrozenAfterFailure ==
  [][ (run' = run /\ ~state.should_continue) =>
        /\ state'.repository = state.repository
        /\ state'.metadata = state.metadata
        /\ state'.analysis = state.analysis ]_vars

\* a run that failed in its third stage has returned with the sections the
\* first two stages filled
C5_Witness ==
  /\ Len(results) = 1 /\ pc = "idle"
  /\ ~state.should_continue
  /\ Len(invoked) = 3
  /\ state.metadata.files # <<>>
  /\ results[1].metadata = state.metadata

\* C6: errors is append-only within a run: a run starts with the empty list
\* and every step of the run leaves the earlier contents as a prefix.
C6_ErrorsAppendOnly ==
  [][ /\ (run' = run + 1) => state'.errors = <<>>
      /\ (run' = run) => IsPrefix(state.errors, state'.errors) ]_vars

\* the second run has recorded a message
C6_Witness ==
  /\ run = 2
  /\ pc = "END"
  /\ Len(state.errors) = 1

\* the collaborator calls of repository_analysis other than the issue/PR
\* retrieval succeed
RepositoryCallsSucceed ==
  remote.repo_info.kind = "ok" /\ remote.listing[<<>>].kind # "transport_error"

\* C7: when the issue/PR retrieval fails, repository_analysis still succeeds
\* (no error recorded, should_continue true) and the state holds the empty
\* placeholder result in place of the retrieved issues.
C7_IssuesPlaceholder ==
  (Len(invoked) = 1 /\ RepositoryCallsSucceed /\ ~get_issues(remote, REPO_OWNER, REPO_NAME).ok) =>
     /\ invoked[1].raised = None
     /\ state.errors = <<>> /\ state.should_continue
     /\ "issues" \in DOMAIN state
     /\ state.issues = [issues |-> <<>>, pull_requests |-> <<>>]

\* C8: when the summarization call fails, data_formatting still succeeds with
\* the fallback summary built from the repository info and the code metrics,
\* and the run goes on to json_generation.  Stated for the analyzers that are
\* CodeAnalyzer.
C8_FallbackSummary ==
  (/\ workflow.code_analyzer \in {"default", "five_args"}
   /\ remote.llm.kind = "raises"
   /\ Len(invoked) >= 3) =>
     /\ invoked[3].raised = None
     /\ state.analysis.summary =
          _generate_fallback_summary(state.repository, state.metadata.code_metrics)
     /\ (Len(invoked) = 3 => pc = "generate_json")

\* every collaborator call succeeds
AllCollaboratorsSucceed ==
  /\ remote.repo_info.kind = "ok"
  /\ \A path \in DOMAIN remote.listing : remote.listing[path].kind = "ok"
  /\ \A path \in DOMAIN remote.content : remote.content[path].kind = "ok"
  /\ remote.issues.kind = "ok"
  /\ remote.llm.kind = "ok"

DefaultWorkflow ==
  [metadata_extractor |-> "default", code_analyzer |-> "default", json_formatter |-> "default"]

\* C9: with every collaborator call succeeding, a run of the workflow built
\* with the default processors executes all four stages and ends complete
\* with no errors; in particular the analyze call of data_formatting returns
\* a result.
C9_DefaultRunCompletes ==
  (workflow = DefaultWorkflow /\ AllCollaboratorsSucceed /\ pc = "END") =>
     /\ Len(invoked) = 4
     /\ invoked[3].raised = None
     /\ is_complete(state) /\ state.errors = <<>>

\* the fields of a json_output that are not enrichment-sourced free text and
\* not the time of the analysis: the repository section without its overview,
\* and the metadata section
HeuristicFields(json_output) ==
  IF json_output = <<>> THEN <<>>
  ELSE << [repository |-> [k \in DOMAIN json_output[1].repository \ {"overview"} |->
                              json_output[1].repository[k]],
           metadata |-> json_output[1].metadata] >>

\* C10: two runs fed the same collaborator responses yield the same values in
\* the same order in every heuristic and aggregation field of json_output.
C10_Idempotent ==
  \A i, j \in 1..Len(results) :
     HeuristicFields(results[i].json_output) = HeuristicFields(results[j].json_output)

-----------------------------------------------------------------------------
\* Properties of the formatter

\* C11: whatever format is given, validate accepts the text it returns:
\* validate(format(repository, metadata, analysis)) is true
C11_FormatValidates ==
  call.op = "validate_formatted" => call.ret = Ok(TRUE)

\* a text is well formed when it is JSON, the document is an object, each of
\* the three sections is an object and holds the keys required of it
WellFormed(json_output) ==
  LET section(v, name, keys) ==
        /\ name \in DOMAIN v.members
        /\ v.members[name].type = "object"
        /\ keys \subseteq DOMAIN v.members[name].members
  IN /\ json_output.json = "value"
     /\ json_output.value.type = "object"
     /\ section(json_output.value, "repository", {"name", "owner"})
     /\ section(json_output.value, "metadata",
                {"files", "dependencies", "codeMetrics", "techStack"})
     /\ section(json_output.value, "analysis", {"summary", "insights", "recommendations"})

\* C12: validate never raises: for every text it returns false when the text
\* is not JSON, lacks a section or a key, or has the wrong shape, and true otherwise
C12_ValidateIsBoolean ==
  call.op = "validate" => call.ret.ok /\ call.ret.val = WellFormed(call.args)

-----------------------------------------------------------------------------
\* Properties of the tree fetcher

\* the entries of the given type that the listing of path shows
Entries(mcp_client, path, type) ==
  LET response == contents(mcp_client, path)
      items == IF response.kind = "ok" THEN response.items
               ELSE IF response.kind = "object" THEN <<response.item>>
               ELSE <<>>
  IN SelectSeq(items, LAMBDA item : item.type = type)

Paths(entries) == [i \in 1..Len(entries) |-> entries[i].path]

\* C13: the start path is listed at depth 0; a directory found by the listing
\* at depth d is listed (at depth d + 1) only if traversal is enabled and
\* d < max_depth, and whenever that holds it is listed; a directory found is
\* recorded in the directory list whether or not it is expanded; so with
\* max_depth 0 the result holds exactly the immediate entries of the start path.
C13_DepthLimit ==
  call.op = "get_file_structure" =>
    LET a == call.args
        requests == call.requests
        found(i) == Paths(Entries(a.mcp_client, requests[i][1], "dir"))
    IN /\ requests[1] = <<a.path, 0>>
       /\ \A i \in 2..Len(requests) :
            /\ a.recursive
            /\ requests[i][2] <= a.max_depth
            /\ \E j \in 1..(i - 1) :
                 /\ requests[j][2] = requests[i][2] - 1
                 /\ requests[i][1] \in Range(found(j))
       /\ call.ret.ok =>
            /\ \A i \in 1..Len(requests) :
                 \A path \in Range(found(i)) :
                   /\ path \in Range(Paths(call.ret.val.directories))
                   /\ (a.recursive /\ requests[i][2] < a.max_depth) =>
                        <<path, requests[i][2] + 1>> \in Range(requests)
            /\ a.max_depth = 0 =>
                 /\ Paths(call.ret.val.files) = Paths(Entries(a.mcp_client, a.path, "file"))
                 /\ Paths(call.ret.val.directories) = found(1)

\* a recursive traversal from the root with max_depth 1 finds a/b at the limit:
\* it is in the directory list and its listing is never requested
C13_Witness ==
  /\ call.op = "get_file_structure"
  /\ call.args.path = <<>> /\ call.args.recursive /\ call.args.max_depth = 1
  /\ call.ret.ok
  /\ <<"a","/","b">> \in Range(Paths(call.ret.val.directories))
  /\ <<"z","/","q",".","p","y">> \in Range(Paths(call.ret.val.files))
  /\ \A i \in 1..Len(call.requests) : call.requests[i][1] # <<"a","/","b">>

\* the listing of the start path failed: no answer, or a status other than 200
RootListingFails(mcp_client, path) ==
  contents(mcp_client, path).kind \in {"transport_error", "status"}

\* C14: get_file_structure raises when the listing of the start path fails;
\* when that listing succeeds it returns, whatever the listings below it do,
\* and the directories after a failed one are still listed.
C14_RootFatalOthersAbsorbed ==
  call.op = "get_file_structure" =>
    LET a == call.args
    IN /\ RootListingFails(a.mcp_client, a.path) => ~call.ret.ok
       /\ ~RootListingFails(a.mcp_client, a.path) =>
            /\ call.ret.ok
            /\ Paths(Entries(a.mcp_client, a.path, "file"))
                 = SelectSeq(Paths(call.ret.val.files),
                             LAMBDA path : path \in Range(Paths(Entries(a.mcp_client, a.path, "file"))))

-----------------------------------------------------------------------------
\* Properties of the priority file selection

\* C15: get_service_files requests the content of files of the directory's own
\* listing only, of the max_files highest-scored of them (no file left out
\* scores higher than a file requested), and returns at most max_files
\* entries, each content cut to at most 5000 characters: one entry, in order,
\* for every requested file that could be read (and was not empty), so an
\* unreadable file is skipped and the files after it are still processed.
C15_TopFilesOnly ==
  (call.op = "get_service_files" /\ call.ret.ok) =>
    LET a == call.args
        files == Entries(a.mcp_client, a.service_path, "file")
        score(path) == priority((CHOOSE f \in Range(files) : f.path = path).name)
        read(path) == get_file_content(a.mcp_client, REPO_OWNER, REPO_NAME, path)
        readable == SelectSeq(call.attempted,
                              LAMBDA path : read(path).ok /\ read(path).val # <<>>)
    IN /\ Range(call.attempted) \subseteq Range(Paths(files))
       /\ Len(call.attempted) = Cardinality(Range(call.attempted))
       /\ Len(call.attempted) = IF a.max_files < Len(files) THEN a.max_files ELSE Len(files)
       /\ \A p \in Range(call.attempted) :
            \A q \in Range(Paths(files)) \ Range(call.attempted) : score(p) >= score(q)
       /\ Len(call.ret.val) <= a.max_files
       /\ Paths(call.ret.val) = readable
       /\ \A i \in 1..Len(call.ret.val) :
            /\ Len(call.ret.val[i].content) <= 5000
            /\ call.ret.val[i].content
                 = SubSeq(read(call.ret.val[i].path).val, 1, Len(call.ret.val[i].content))

\* of nine files two are requested and one of the two cannot be read: the
\* other is returned; and a content longer than the limit is returned cut
C15_Witness ==
  /\ call.op = "get_service_files" /\ call.ret.ok
  /\ Len(call.prioritized_files) = 9
  /\ call.args.max_files = 2
  /\ \/ Len(call.ret.val) = 1
     \/ /\ Len(call.ret.val) = 2
        /\ Len(call.ret.val[1].content) = 5000
        /\ Len(call.args.mcp_client.content[call.ret.val[1].path].text) > 5000

\* the classes of the classification table, 1 the highest: entry-point names,
\* config files, manifest and lock files, source code, documentation, the rest
ClassOf(name) ==
  LET ext == Lower(splitext(name))
  IN IF Lower(name) \in {<<"d","o","c","k","e","r","f","i","l","e">>, <<"d","o","c","k","e","r","-","c","o","m","p","o","s","e",".","y","m","l">>, <<".","e","n","v">>, <<"c","o","n","f","i","g",".","j","s","o","n">>, <<"c","o","n","f","i","g",".","y","a","m","l">>, <<"a","p","p","s","e","t","t","i","n","g","s",".","j","s","o","n">>, <<"a","p","p","l","i","c","a","t","i","o","n",".","p","r","o","p","e","r","t","i","e","s">>, <<"a","p","p","l","i","c","a","t","i","o","n",".","y","m","l">>}
     THEN 2
     ELSE IF Lower(name) \in {<<"m","a","i","n">>, <<"i","n","d","e","x">>, <<"a","p","p">>, <<"s","e","r","v","e","r">>, <<"p","r","o","g","r","a","m">>, <<"s","t","a","r","t","u","p">>, <<"a","p","p","l","i","c","a","t","i","o","n">>}
             \/ Contains(Lower(name), <<"m","a","i","n">>) \/ Contains(Lower(name), <<"a","p","p">>)
             \/ Contains(Lower(name), <<"s","e","r","v","e","r">>)
     THEN 1
     ELSE IF ext \in {<<".","j","s","o","n">>, <<".","t","o","m","l">>, <<".","x","m","l">>, <<".","l","o","c","k">>, <<".","m","o","d">>}
             \/ Lower(name) \in {<<"g","e","m","f","i","l","e">>, <<"p","i","p","f","i","l","e">>}
     THEN 3
     ELSE IF ext \in {<<".","c","s">>, <<".","j","s">>, <<".","t","s">>, <<".","p","y">>, <<".","j","a","v","a">>, <<".","g","o">>, <<".","r","s">>, <<".","r","b">>, <<".","p","h","p">>, <<".","c","p","p">>, <<".","c">>}
     THEN 4
     ELSE IF ext \in {<<".","m","d">>, <<".","t","x","t">>, <<".","r","s","t">>}
     THEN 5
     ELSE 6

\* C16: of two files of different classes the one of the earlier class gets
\* the strictly higher priority.
C16_ClassOrder ==
  call.op = "get_service_files" =>
    \A i, j \in 1..Len(call.prioritized_files) :
      ClassOf(call.prioritized_files[i][2].name) < ClassOf(call.prioritized_files[j][2].name)
        => call.prioritized_files[i][1] > call.prioritized_files[j][1]

-----------------------------------------------------------------------------
\* Properties of the metadata extractor

\* C17: the language of a file is decided by its name alone: Docker for a
\* name that lower-cased is "dockerfile", Make for "makefile" and
\* "gnumakefile", otherwise the entry of LANGUAGE_MAP for the lower-cased
\* extension and no language (None, never an error) when it has none; two
\* files of the same name get the same language whatever their path and size.
C17_ClassifierByName ==
  call.op = "extract_files_metadata" =>
    /\ Len(call.ret) = Len(call.args)
    /\ \A i \in 1..Len(call.args) :
         LET name == call.args[i].name
             tag == call.ret[i].language
         IN /\ tag = IF Lower(name) = <<"d","o","c","k","e","r","f","i","l","e">> THEN "Docker"
                     ELSE IF Lower(name) \in {<<"m","a","k","e","f","i","l","e">>, <<"g","n","u","m","a","k","e","f","i","l","e">>}
                     THEN "Make"
                     ELSE LANGUAGE_MAP_get(splitext(Lower(name)))
            /\ name = <<"A","p","p",".","P","Y">> => tag = "Python"
            /\ name = <<"M","a","i","n",".","C","s">> => tag = "C#"
            /\ name = <<"D","O","C","K","E","R","F","I","L","E">> => tag = "Docker"
            /\ name = <<"G","N","U","m","a","k","e","f","i","l","e">> => tag = "Make"
            /\ name \in {<<"d","a","t","a",".","u","n","k","n","o","w","n">>, <<"R","E","A","D","M","E">>, <<"a",".","t","a","r",".","g","z">>, <<"G","e","m","f","i","l","e">>} => tag = None
            /\ \A j \in 1..Len(call.args) :
                 call.args[j].name = name => call.ret[j].language = tag

\* App.PY at the root and under src/api: Python both times
C17_Witness ==
  /\ call.op = "extract_files_metadata"
  /\ call.args[1].name = <<"A","p","p",".","P","Y">> /\ call.args[2].name = <<"A","p","p",".","P","Y">>
  /\ call.args[1].path # call.args[2].path
  /\ call.ret[1].language = "Python" /\ call.ret[2].language = "Python"

\* the canonical manifest names and the kind of each
ManifestKinds ==
  (<<"p","a","c","k","a","g","e",".","j","s","o","n">> :> "npm") @@ (<<"r","e","q","u","i","r","e","m","e","n","t","s",".","t","x","t">> :> "pip") @@ (<<"P","i","p","f","i","l","e">> :> "pipenv")
  @@ (<<"p","y","p","r","o","j","e","c","t",".","t","o","m","l">> :> "poetry") @@ (<<"G","e","m","f","i","l","e">> :> "bundler") @@ (<<"g","o",".","m","o","d">> :> "go")
  @@ (<<"C","a","r","g","o",".","t","o","m","l">> :> "cargo") @@ (<<"p","o","m",".","x","m","l">> :> "maven") @@ (<<"b","u","i","l","d",".","g","r","a","d","l","e">> :> "gradle")
  @@ (<<"D","i","r","e","c","t","o","r","y",".","P","a","c","k","a","g","e","s",".","p","r","o","p","s">> :> "nuget")
  @@ (<<"p","a","c","k","a","g","e","s",".","c","o","n","f","i","g">> :> "nuget")

\* C18: _get_dependency_type returns the kind of the manifest when the name
\* is one of the canonical names, nuget when it ends with ".csproj" and None
\* for every other name; and extract_dependencies reads a file because of its
\* name, whatever its path: every record comes from a file whose name is a
\* manifest name.
C18_ManifestByName ==
  /\ call.op = "_get_dependency_type" =>
       call.ret = IF call.args \in DOMAIN ManifestKinds THEN ManifestKinds[call.args]
                  ELSE IF EndsWith(call.args, <<".","c","s","p","r","o","j">>) THEN "nuget"
                  ELSE None
  /\ (call.op = "extract_dependencies" /\ call.ret.ok) =>
       \A i \in 1..Len(call.ret.val) :
         \E file \in Range(call.args.files) :
           /\ file.path = call.ret.val[i].source_file
           /\ file.name \in DOMAIN ManifestKinds \/ EndsWith(file.name, <<".","c","s","p","r","o","j">>)

\* Api.csproj is a nuget manifest
C18_Witness ==
  /\ call.op = "_get_dependency_type"
  /\ call.args = <<"A","p","i",".","c","s","p","r","o","j">>
  /\ call.ret = "nuget"

\* the records a file yields when it is a manifest that can be fetched and parsed
Readable(file, mcp_client) ==
  LET content == get_file_content(mcp_client, REPO_OWNER, REPO_NAME, file.path)
      kind == IF file.name \in DOMAIN ManifestKinds THEN ManifestKinds[file.name] ELSE None
      parsed == _parse_dependencies(content.val, kind, file.path)
  IN IF kind # None /\ content.ok /\ parsed.ok THEN parsed.val ELSE <<>>

\* C19: extract_dependencies never raises; a manifest whose fetch or parse
\* raises contributes no record and the records of the other manifests are
\* returned in the order of the files.
C19_UnreadableManifestSkipped ==
  call.op = "extract_dependencies" =>
    /\ call.ret.ok
    /\ call.ret.val = Flatten([i \in 1..Len(call.args.files) |->
                                Readable(call.args.files[i], call.args.mcp_client)])

\* the first manifest cannot be fetched or parsed, the second yields its record
C19_Witness ==
  /\ call.op = "extract_dependencies"
  /\ call.args.files = <<PACKAGE_JSON, DOCS_PACKAGE_JSON>>
  /\ \/ call.args.mcp_client.content[PACKAGE_JSON.path].kind = "transport_error"
     \/ /\ call.args.mcp_client.content[PACKAGE_JSON.path].kind = "ok"
        /\ call.args.mcp_client.content[PACKAGE_JSON.path].text.json = "not_object"
  /\ call.ret.ok
  /\ Len(call.ret.val) = 1
  /\ call.ret.val[1].source_file = DOCS_PACKAGE_JSON.path

\* C20: _parse_npm_dependencies returns, in the order dependencies,
\* devDependencies, peerDependencies, one record per entry of each section,
\* tagged with the section's key; for a payload that is not JSON, is no
\* object or has a section that is no map it returns the empty list and does
\* not raise.
C20_NpmParserTolerant ==
  call.op = "_parse_npm_dependencies" =>
    LET content == call.args
        keys == <<"dependencies", "devDependencies", "peerDependencies">>
        malformed ==
          \/ content.json # "object"
          \/ \E k \in DOMAIN content.data : content.data[k].type # "object"
        entries(k) == IF keys[k] \in DOMAIN content.data
                      THEN content.data[keys[k]].items ELSE <<>>
    IN /\ call.ret.ok
       /\ malformed => call.ret.val = <<>>
       /\ ~malformed =>
            call.ret.val =
              Flatten([k \in 1..3 |->
                         [i \in 1..Len(entries(k)) |->
                            [name |-> entries(k)[i][1], version |-> entries(k)[i][2],
                             type |-> keys[k], source_file |-> PACKAGE_JSON.path]]])

C22_GoParser ==
  call.op = "_parse_go_dependencies" =>
    LET lines == call.args
        in_require_block(i) ==
          \E j \in 1..(i - 1) :
            lines[j].form = "open" /\ \A k \in (j + 1)..(i - 1) : lines[k].form # "close"
    IN \E from \in [1..Len(call.ret) -> 1..Len(lines)] :
         /\ \A a, b \in 1..Len(call.ret) : a < b => from[a] < from[b]
         /\ \A k \in 1..Len(call.ret) :
              /\ lines[from[k]].form = "statement"
              /\ in_require_block(from[k]) \/ lines[from[k]].keyword # <<>>
              /\ call.ret[k].type = "go"
              /\ call.ret[k].name = lines[from[k]].path
              /\ call.ret[k].version = lines[from[k]].version

\* C23: identify_tech_stack never returns two items with the same name
C23_NoDuplicateNames ==
  call.op = "identify_tech_stack" =>
    \A i, j \in 1..Len(call.ret) : call.ret[i].name = call.ret[j].name => i = j

\* two records that both map to React, next to a Dockerfile and a record that
\* maps to Docker, gave one React item, of the first record, and one Docker item
C23_Witness ==
  /\ call.op = "identify_tech_stack"
  /\ Len(call.args.dependencies) = 2
  /\ call.args.dependencies[1].name = <<"r","e","a","c","t","-","d","o","m">>
  /\ call.args.dependencies[2].name = <<"r","e","a","c","t">>
  /\ Cardinality({i \in 1..Len(call.ret) : call.ret[i].name = "React"}) = 1
  /\ \E i \in 1..Len(call.ret) : call.ret[i].name = "React" /\ call.ret[i].version = <<"1","8",".","2",".","0">>

\* the patterns of the table that occur in the lower-cased name of a record
Matches(dependency) ==
  {p \in 1..Len(framework_patterns) :
     Contains(Lower(dependency.name), framework_patterns[p][1])}

\* the items after the languages that the dependency loop makes when a record
\* gives an item for each pattern of `found(d)`, in the order of the table,
\* unless a language or an earlier record has given the name
ItemsOfDependencies(found(_)) ==
  LET dependencies == call.args.dependencies
      fresh(d, p) ==
        /\ p \in found(d)
        /\ framework_patterns[p][2] \notin Range(call.order)
        /\ \A e \in 1..(d - 1) : p \notin found(e)
  IN Flatten([d \in 1..Len(dependencies) |->
       Flatten([p \in 1..Len(framework_patterns) |->
         IF fresh(d, p)
         THEN << [name |-> framework_patterns[p][2], category |-> framework_patterns[p][3],
                  version |-> dependencies[d].version] >>
         ELSE <<>>])])

\* the items of the result that follow the languages and the items of the
\* dependencies: Docker and GitHub Actions, from the marker files
OnlyMarkerItems(items) ==
  \A k \in 1..Len(items) :
    items[k].name \in {"Docker", "GitHub Actions"} /\ items[k].version = NoneText

\* C24: each dependency record gives one item for every pattern of the table
\* that occurs in its lower-cased name, in the order of the table, unless an
\* item of that name is already there
C24_EveryMatchCounts ==
  call.op = "identify_tech_stack" =>
    LET expected == ItemsOfDependencies(LAMBDA d : Matches(call.args.dependencies[d]))
        first == Len(call.order) + 1
    IN /\ Len(call.ret) >= Len(call.order) + Len(expected)
       /\ SubSeq(call.ret, first, Len(call.order) + Len(expected)) = expected
       /\ OnlyMarkerItems(SubSeq(call.ret, first + Len(expected), Len(call.ret)))

\* C24 as stated: each dependency record gives at most one item, that of the
\* first pattern of the table that occurs in its lower-cased name
C24_FirstMatchWins ==
  call.op = "identify_tech_stack" =>
    LET first_match(d) ==
          {p \in Matches(call.args.dependencies[d]) :
             \A q \in Matches(call.args.dependencies[d]) : p <= q}
        expected == ItemsOfDependencies(first_match)
        first == Len(call.order) + 1
    IN /\ Len(call.ret) >= Len(call.order) + Len(expected)
       /\ SubSeq(call.ret, first, Len(call.order) + Len(expected)) = expected
       /\ OnlyMarkerItems(SubSeq(call.ret, first + Len(expected), Len(call.ret)))

\* Microsoft.AspNetCore.Mvc alone gave two items: ASP.NET, then ASP.NET Core
C24_Witness ==
  /\ call.op = "identify_tech_stack"
  /\ Len(call.args.dependencies) = 1
  /\ call.args.dependencies[1].name = <<"M","i","c","r","o","s","o","f","t",".","A","s","p","N","e","t","C","o","r","e",".","M","v","c">>
  /\ call.args.files_metadata = <<>>
  /\ Len(call.ret) = 2
  /\ call.ret[1].name = "ASP.NET" /\ call.ret[2].name = "ASP.NET Core"

\* C25: for every dependency record and every pattern of the table that
\* occurs in its lower-cased name, the result of identify_tech_stack has an
\* item with the display name of that pattern
C25_MatchedNamesPresent ==
  call.op = "identify_tech_stack" =>
    \A d \in 1..Len(call.args.dependencies) :
      \A p \in Matches(call.args.dependencies[d]) :
        \E k \in 1..Len(call.ret) : call.ret[k].name = framework_patterns[p][2]

\* express and Microsoft.AspNetCore.Mvc gave Express.js and ASP.NET Core
C25_Witness ==
  /\ call.op = "identify_tech_stack"
  /\ Len(call.args.dependencies) = 2
  /\ call.args.dependencies[1].name = <<"e","x","p","r","e","s","s">>
  /\ call.args.dependencies[2].name = <<"M","i","c","r","o","s","o","f","t",".","A","s","p","N","e","t","C","o","r","e",".","M","v","c">>
  /\ \E k \in 1..Len(call.ret) : call.ret[k].name = "Express.js"
  /\ \E k \in 1..Len(call.ret) : call.ret[k].name = "ASP.NET Core"

\* the path lies under the directory src/<service>/
UnderService(path, service) == IsPrefix(<<"s","r","c","/">> \o service \o <<"/">>, path)

\* C26: extract_services returns one descriptor for each directory directly
\* under src that holds a file, and no other: the names are distinct, every
\* name is a directory under src with a file in it, every such directory has
\* its descriptor, and file_count counts the files under the directory
C26_OneServicePerDirectory ==
  call.op = "extract_services" =>
    LET files == call.args.files
        paths == {files[i].path : i \in 1..Len(files)}
    IN /\ \A i, j \in 1..Len(call.ret) : call.ret[i].name = call.ret[j].name => i = j
       /\ \A i \in 1..Len(call.ret) :
            /\ \E path \in paths : UnderService(path, call.ret[i].name)
            /\ call.ret[i].file_count =
                 Cardinality({k \in 1..Len(files) :
                                UnderService(files[k].path, call.ret[i].name)})
       /\ \A path \in paths, service \in {<<"a","p","i">>, <<"w","e","b">>, <<"a","p","i","-","g","a","t","e","w","a","y">>} :
            UnderService(path, service) =>
              \E i \in 1..Len(call.ret) : call.ret[i].name = service

\* C27: the dependencies of each descriptor of extract_services are the names
\* of the records whose source file lies under src/<service>/, in order
C27_DependenciesOfOwnDirectory ==
  call.op = "extract_services" =>
    \A i \in 1..Len(call.ret) :
      LET own == SelectSeq(call.args.dependencies,
                           LAMBDA d : UnderService(d.source_file, call.ret[i].name))
      IN call.ret[i].dependencies = [k \in 1..Len(own) |-> own[k].name]

\* C28: _extract_connections returns, each once, exactly the edges (from, to,
\* via) where via is a dependency of the service from, to is the name of
\* another service and the normalized to is a part of the normalized via; from
\* and to always differ
C28_Connections ==
  call.op = "_extract_connections" =>
    LET services == call.args
        edges ==
          {<<services[s].name, services[o].name, services[s].dependencies[d]>> :
             <<s, o, d>> \in
               {<<s, o, d>> \in (1..Len(services)) \X (1..Len(services)) \X (1..2) :
                  /\ d <= Len(services[s].dependencies)
                  /\ services[s].name # services[o].name
                  /\ Contains(normalized(services[s].dependencies[d]),
                              normalized(services[o].name))}}
        triple(i) == <<call.ret[i].from, call.ret[i].to, call.ret[i].via>>
    IN /\ {triple(i) : i \in 1..Len(call.ret)} = edges
       /\ \A i, j \in 1..Len(call.ret) : triple(i) = triple(j) => i = j
       /\ \A i \in 1..Len(call.ret) :
            call.ret[i].from # call.ret[i].to /\ call.ret[i].type = "dependency"

\* A with the dependency b-client, named twice, and B without dependencies
\* gave the one edge from A to B via b-client
C28_Witness ==
  /\ call.op = "_extract_connections"
  /\ Len(call.args) = 2
  /\ call.args[1].name = <<"A">> /\ call.args[1].dependencies = <<<<"b","-","c","l","i","e","n","t">>, <<"b","-","c","l","i","e","n","t">>>>
  /\ call.args[2].name = <<"B">> /\ call.args[2].dependencies = <<>>
  /\ call.ret = <<[from |-> <<"A">>, to |-> <<"B">>, type |-> "dependency", via |-> <<"b","-","c","l","i","e","n","t">>]>>

-----------------------------------------------------------------------------
\* Properties of interleaved runs

\* the final states that call r of process() can return when it is executed
\* alone: the nodes applied in the order of the graph to a fresh initial
\* state, for every order in which the sets are iterated, when generate_json
\* reads the time `now`
Alone(r, now) ==
  LET s0 == create_initial_state(REPO_OWNER, IF r = 1 THEN REPO_NAME ELSE "second-repo")
      s1 == analyze_repository(s0, remote).val
      generated(s3) ==
        {generate_json(s3, workflow.json_formatter, now, tech_order, names_order).val :
           tech_order \in SetOrders(TechNames(Get(s3.metadata, "tech_stack", <<>>))),
           names_order \in
             SetOrders({s.name : s \in Range(Get(s3.analysis, "services", <<>>))})}
      formatted(s2) ==
        LET s3 == format_data(s2, workflow.code_analyzer, remote).val
        IN IF next_node("format_data", s3) = "END" THEN {s3} ELSE generated(s3)
      extracted(order) ==
        LET s2 == extract_metadata(s1, workflow.metadata_extractor, remote, order).val
        IN IF next_node("extract_metadata", s2) = "END" THEN {s2} ELSE formatted(s2)
  IN IF next_node("analyze_repository", s1) = "END" THEN {s1}
     ELSE UNION {extracted(order) :
                   order \in SetOrders(observed_languages(
                               extract_files_metadata(s1.raw_files, remote,
                                                      REPO_OWNER, REPO_NAME)))}

\* C29: each call of process() works on a state object of its own, and
\* whatever the interleaving with the other call, the state it returns is one
\* it returns when executed alone
C29_RunsIndependent ==
  /\ run[1] # 0 /\ run[2] # 0 => run[1] # run[2]
  /\ \A r \in 1..2 :
       pc[r].node = "returned" =>
         results[r] \in Alone(r, IF results[r].json_output = <<>> THEN 0
                                 ELSE results[r].json_output[1].analysis_metadata.analyzed_at)

\* both calls have returned a complete state, and each ran generate_json
\* after the other had started (alone, generate_json reads the clock at 7)
C29_Witness ==
  /\ \A r \in 1..2 :
       /\ pc[r].node = "returned"
       /\ results[r].is_complete
       /\ results[r].json_output[1].analysis_metadata.analyzed_at > 7
  /\ results[1].repo_name # results[2].repo_name

-----------------------------------------------------------------------------
\* Termination of the traversal

\* the number of listings in a tree of the given fan-out and depth:
\* 1 + fan_out + ... + fan_out^depth
RECURSIVE Levels(_, _)
Levels(fan_out, depth) == IF depth = 0 THEN 1 ELSE 1 + fan_out * Levels(fan_out, depth - 1)

\* C30: get_file_structure ends, on cyclic listings too: no listing is
\* requested at a depth above max_depth, only the start path is listed when
\* traversal is off, the number of requests is at most that of a tree of
\* max_depth + 1 levels with the largest fan-out of the remote, and the counts
\* returned are the lengths of the lists returned
C30_TraversalBounded ==
  call.op = "get_file_structure" =>
    LET a == call.args
        fan_out(path) == Len(Entries(a.mcp_client, path, "dir"))
        widest == CHOOSE n \in {fan_out(path) : path \in DOMAIN a.mcp_client.listing} :
                    \A path \in DOMAIN a.mcp_client.listing : fan_out(path) <= n
    IN /\ \A i \in 1..Len(call.requests) : call.requests[i][2] <= a.max_depth
       /\ ~a.recursive => Len(call.requests) = 1
       /\ Len(call.requests) <= Levels(widest, a.max_depth)
       /\ call.ret.ok =>
            /\ call.ret.val.total_files = Len(call.ret.val.files)
            /\ call.ret.val.total_directories = Len(call.ret.val.directories)

\* on the cyclic remote a traversal of depth 2 from the root returned after
\* 1 + 2 + 4 listings, with the one file recorded three times
C30_Witness ==
  /\ call.op = "get_file_structure"
  /\ call.args.path = <<>> /\ call.args.recursive /\ call.args.max_depth = 2
  /\ <<>> \in Range(Paths(Entries(call.args.mcp_client, <<"a">>, "dir")))
  /\ call.ret.ok
  /\ Len(call.requests) = 7
  /\ call.ret.val.total_files = 3
  /\ call.ret.val.total_directories = 14

====
